---------------------------- MODULE Spec2Model ----------------------------
(***************************************************************************)
(* OneVoice server (server/src/index.js and its services): the per-member *)
(* delivery pipeline for text and voice sends, the conversation and        *)
(* membership handlers, and the tables they read and write.                *)
(*                                                                         *)
(* Every handler is an async function: it runs alone between two awaits,   *)
(* and other handlers run while it awaits.  Each action below is one such  *)
(* stretch of a handler, ending at an await whose result depends on (or    *)
(* changes) a table, or at a call of an external provider.                 *)
(***************************************************************************)
EXTENDS Integers, Sequences, FiniteSets, TLC

(***************************************************************************)
(* Bounds of the model.                                                    *)
(***************************************************************************)
MaxSends == 1
MaxRemovals == 2
MaxDirects == 2
MaxSerial == 2
MaxSockets == 1

(***************************************************************************)
(* Values.                                                                 *)
(***************************************************************************)
Null == [null |-> TRUE]

Users == {"u1", "u2", "u3", "u4"}
Langs == {"en", "hi"}

\* A text is its wording w and the language l it is written in ("und" when
\* no language can be told from it: empty, blank or too short).
EmptyText == [w |-> "", l |-> "und"]
BlankText == [w |-> " ", l |-> "und"]
Texts ==
    { BlankText,
      [w |-> "ok", l |-> "und"],
      [w |-> "coffee", l |-> "en"],
      [w |-> "coffee", l |-> "hi"] }

\* An audio payload is its base64 data, what is said in it, and the
\* language_code the speech-to-text provider reports for it.
EmptyAudio == [data |-> "", said |-> EmptyText, code |-> ""]
BlankAudio == [data |-> " ", said |-> EmptyText, code |-> ""]
Audios ==
    { EmptyAudio, BlankAudio,
      [data |-> "b64", said |-> [w |-> "coffee", l |-> "hi"], code |-> "hi-IN"],
      [data |-> "b64", said |-> [w |-> "coffee", l |-> "hi"], code |-> ""] }

\* String.prototype.trim on the wording of a text / the data of an audio.
Trim(s) == IF s = " " THEN "" ELSE s

VARIABLES
    preferredLanguage,  \* User.preferredLanguage, by user id
    conversations,      \* table Conversation, in creation order; id = index
    members,            \* table ConversationMember, in creation order
    messages,           \* table Message, in creation order; id = index
    events,             \* what io.to(room).emit has sent, in order
    sends,              \* the running and finished send handlers
    removals,           \* the running and finished member-removal handlers
    directs,            \* the running and finished direct-creation handlers
    sockets,            \* the connected sockets: rooms, data, join in progress
    history,            \* the last answer of GET /conversations/:id/messages
    screens             \* the open chat screens of the clients, one per socket

vars == <<preferredLanguage, conversations, members, messages, events,
          sends, removals, directs, sockets, history, screens>>

(***************************************************************************)
(* Membership reads.                                                       *)
(***************************************************************************)
MemberRows(conversationId) ==
    SelectSeq(members, LAMBDA m : m.conversationId = conversationId)

isConversationMember(conversationId, userId) ==
    \E k \in 1..Len(members) :
        /\ members[k].conversationId = conversationId
        /\ members[k].userId = userId

\* A read that answers with the list an earlier send of the conversation
\* has loaded, when there is one.
getConversationMembersCached(conversationId) ==
    LET earlier == { t \in DOMAIN sends :
                       /\ sends[t].pc = "done"
                       /\ sends[t].conversationId = conversationId
                       /\ sends[t].list # <<>> }
        rows == SelectSeq(members, LAMBDA m : m.conversationId = conversationId)
    IN  IF earlier # {}
        THEN sends[CHOOSE t \in earlier : \A q \in earlier : t <= q].list
        ELSE [k \in 1..Len(rows) |->
                [id |-> rows[k].userId,
                 preferredLanguage |-> preferredLanguage[rows[k].userId]]]

\* members.map((m) => m.user): each member's user row as it is now.
getConversationMembers(conversationId) ==
    LET rows == MemberRows(conversationId)
    IN  [k \in 1..Len(rows) |->
            [id |-> rows[k].userId,
             preferredLanguage |-> preferredLanguage[rows[k].userId]]]

\* members.find((m) => m.id === senderId)
FindSender(list, senderId) ==
    IF \E k \in 1..Len(list) : list[k].id = senderId
    THEN list[CHOOSE k \in 1..Len(list) :
                 /\ list[k].id = senderId
                 /\ \A j \in 1..(k - 1) : list[j].id # senderId]
    ELSE Null

(***************************************************************************)
(* Services.                                                               *)
(***************************************************************************)
\* services/language.js: the language of the text when one can be told
\* and is a canonical code, the fallback otherwise.
detectLanguage(text, fallback) ==
    IF text.l \in Langs THEN text.l ELSE fallback

\* What the translation engine returns: the wording in the target language.
LocalizeText(text, targetLanguage) == [w |-> text.w, l |-> targetLanguage]

\* translateText without its sourceLanguage === targetLanguage return.
TranslateRouteAlwaysEngine(text, targetLanguage, sourceLanguage) ==
    IF Trim(text.w) = "" THEN "blank" ELSE "engine"

\* services/translator.js translateText, up to the call of the engine:
\* "blank" and "same" return without the engine, "engine" calls it.
TranslateRoute(text, targetLanguage, sourceLanguage) ==
    IF Trim(text.w) = "" THEN "blank"
    ELSE IF sourceLanguage = targetLanguage THEN "same"
    ELSE "engine"

translateText(text, targetLanguage, sourceLanguage) ==
    LET route == TranslateRoute(text, targetLanguage, sourceLanguage)
    IN  IF route = "blank" THEN EmptyText
        ELSE IF route = "same" THEN text
        ELSE LocalizeText(text, targetLanguage)

Err(stage, message) == [stage |-> stage, message |-> message]

NotMember == Err("", "User is not a member of this conversation")

(***************************************************************************)
(* The send handlers: socket "sendMessage", socket "sendVoiceMessage" and  *)
(* POST /conversations/:conversationId/voice.                              *)
(***************************************************************************)
\* asked counts, per provider, the calls the handler has made of it (the
\* upload of the original audio apart from those of the translated audio);
\* wasMember records whether the sender had a membership when it began.
NoAsks == [translate |-> 0, stt |-> 0, tts |-> 0, upload |-> 0, original |-> 0]

IdleSend ==
    [pc |-> "idle", entry |-> "", conversationId |-> 0, senderId |-> "",
     text |-> EmptyText, audio |-> EmptyAudio, traceId |-> Null,
     list |-> <<>>, i |-> 0,
     sourceText |-> EmptyText, sourceLanguage |-> "",
     originalAudioUrl |-> Null, translatedText |-> EmptyText,
     ttsAudio |-> Null, translatedAudioUrl |-> Null,
     ack |-> Null, asked |-> NoAsks, wasMember |-> FALSE]

\* makeTraceId: "v_<time>_<random>", one per invocation, never empty.
makeTraceId(s) == [v |-> s]

\* The acknowledgment of a socket handler / the response of the HTTP route.
AckOk(e, traceId) ==
    [ok |-> TRUE, error |-> Null, traceId |-> traceId,
     status |-> IF e = "httpVoice" THEN 201 ELSE 0]

AckError(e, error, traceId) ==
    [ok |-> FALSE, error |-> error, traceId |-> traceId,
     status |-> IF e = "httpVoice" THEN 400 ELSE 0]

\* The handler returns: its acknowledgment is sent and the variables of
\* its loop body are gone.
Finish(s, ack) ==
    sends' = [sends EXCEPT ![s] =
        [@ EXCEPT !.pc = "done", !.ack = ack, !.translatedText = EmptyText,
                  !.ttsAudio = Null, !.translatedAudioUrl = Null]]

\* A catch block that logs the error and sends no acknowledgment.
ThrowUnanswered(s, error) ==
    sends' = [sends EXCEPT ![s] =
        [@ EXCEPT !.pc = "lost", !.translatedText = EmptyText,
                  !.ttsAudio = Null, !.translatedAudioUrl = Null]]

\* A handler that throws: the catch block answers with error.message, and
\* the voice entry points add the trace id.
Throw(s, error) ==
    Finish(s, AckError(sends[s].entry, error, sends[s].traceId))

\* The same after a call of a provider that failed.
ThrowAsked(s, provider, error) ==
    sends' = [sends EXCEPT ![s] =
        [@ EXCEPT !.pc = "done", !.asked[provider] = @ + 1,
                  !.ack = AckError(sends[s].entry, error, sends[s].traceId),
                  !.translatedText = EmptyText, !.ttsAudio = Null,
                  !.translatedAudioUrl = Null]]

Begin(s, e, conversationId, senderId, text, audio) ==
    [IdleSend EXCEPT !.entry = e, !.conversationId = conversationId,
                     !.senderId = senderId, !.text = text, !.audio = audio,
                     !.traceId = IF e = "sendMessage" THEN Null ELSE makeTraceId(s),
                     !.wasMember = isConversationMember(conversationId, senderId)]

NextSlot(s) ==
    /\ sends[s].pc = "idle"
    /\ \A t \in DOMAIN sends : t < s => sends[t].pc # "idle"

\* The handler without its membership check.
AssertMemberSkipped(s, start) ==
    sends' = [sends EXCEPT ![s] = [start EXCEPT !.pc = "members"]]

\* assertMember, then on to getConversationMembers.
AssertMember(s, start) ==
    IF isConversationMember(start.conversationId, start.senderId)
    THEN sends' = [sends EXCEPT ![s] = [start EXCEPT !.pc = "members"]]
    ELSE sends' = [sends EXCEPT ![s] =
            [start EXCEPT !.pc = "done",
                          !.ack = AckError(start.entry, NotMember, start.traceId)]]

\* socket.on("sendMessage"): the text check, then assertMember.
StartSendMessage(s, conversationId, senderId, text) ==
    /\ NextSlot(s)
    /\ LET start == Begin(s, "sendMessage", conversationId, senderId, text, EmptyAudio)
       IN  IF Trim(text.w) = ""
           THEN sends' = [sends EXCEPT ![s] =
                    [start EXCEPT !.pc = "done",
                                  !.ack = AckError("sendMessage",
                                              Err("", "text is required"), Null)]]
           ELSE AssertMember(s, start)
    /\ UNCHANGED <<preferredLanguage, conversations, members, messages, events,
                   removals, directs, sockets, history, screens>>

\* socket.on("sendVoiceMessage"): the trace id, then assertMember.
StartSendVoiceMessage(s, conversationId, senderId, audio) ==
    /\ NextSlot(s)
    /\ AssertMember(s, Begin(s, "sendVoiceMessage", conversationId, senderId,
                             EmptyText, audio))
    /\ UNCHANGED <<preferredLanguage, conversations, members, messages, events,
                   removals, directs, sockets, history, screens>>

\* POST /conversations/:conversationId/voice: the trace id, the audio
\* check (answered without the trace id), then assertMember.
StartHttpVoice(s, conversationId, userId, audio) ==
    /\ NextSlot(s)
    /\ LET start == Begin(s, "httpVoice", conversationId, userId, EmptyText, audio)
       IN  IF Trim(audio.data) = ""
           THEN sends' = [sends EXCEPT ![s] =
                    [start EXCEPT !.pc = "done",
                                  !.ack = AckError("httpVoice",
                                              Err("", "audioBase64 is required"), Null)]]
           ELSE AssertMember(s, start)
    /\ UNCHANGED <<preferredLanguage, conversations, members, messages, events,
                   removals, directs, sockets, history, screens>>

\* getConversationMembers and the lookup of the sender in its result; the
\* text handler goes on to detect the source language.
LoadMembers(s) ==
    /\ sends[s].pc = "members"
    /\ LET list == getConversationMembers(sends[s].conversationId)
           sender == FindSender(list, sends[s].senderId)
       IN  IF sender = Null
           THEN Throw(s, Err("", "Sender not found"))
           ELSE IF sends[s].entry = "sendMessage"
           THEN sends' = [sends EXCEPT ![s] =
                    [@ EXCEPT !.pc = "translate", !.list = list, !.i = 1,
                              !.sourceText = sends[s].text,
                              !.sourceLanguage =
                                  detectLanguage(sends[s].text, sender.preferredLanguage)]]
           ELSE sends' = [sends EXCEPT ![s] =
                    [@ EXCEPT !.pc = "upload", !.list = list]]
    /\ UNCHANGED <<preferredLanguage, conversations, members, messages, events,
                   removals, directs, sockets, history, screens>>

\* A loop that reads the first member on every pass.
RecipientFirst(s) == sends[s].list[1]

\* A loop that goes through the members from the last to the first.
RecipientReversed(s) == sends[s].list[Len(sends[s].list) + 1 - sends[s].i]

\* A loop that reads the member's user row again on every pass.
RecipientNow(s) ==
    [id |-> sends[s].list[sends[s].i].id,
     preferredLanguage |-> preferredLanguage[sends[s].list[sends[s].i].id]]

\* const recipient of members: the member the loop is at.
Recipient(s) == sends[s].list[sends[s].i]

Asked(s, provider) ==
    [sends[s].asked EXCEPT ![provider] = @ + 1]

IsVoice(s) == sends[s].entry # "sendMessage"

\* The stage tag the voice pipeline puts before the message of an error it
\* rethrows; the text handler rethrows nothing and passes the message on.
Tagged(s, stage, message) ==
    IF IsVoice(s) THEN Err(stage, message) ELSE Err("", message)

\* An upload whose failure is logged and passed over: the send goes on
\* without the URL.
UploadOriginalLenient(s) ==
    /\ sends[s].pc = "upload"
    /\ IF sends[s].audio.data = ""
       THEN sends' = [sends EXCEPT ![s] = [@ EXCEPT !.pc = "stt"]]
       ELSE \E ok \in BOOLEAN :
               sends' = [sends EXCEPT ![s] =
                   [@ EXCEPT !.pc = "stt", !.asked = Asked(s, "original"),
                             !.originalAudioUrl =
                                 IF ok THEN [url |-> "original", r |-> ""]
                                 ELSE Null]]
    /\ UNCHANGED <<preferredLanguage, conversations, members, messages, events,
                   removals, directs, sockets, history, screens>>

\* uploadAudioBase64(audioBase64, `original_${conversationId}`): null
\* without a call when the input is the empty string.
UploadOriginal(s) ==
    /\ sends[s].pc = "upload"
    /\ IF sends[s].audio.data = ""
       THEN sends' = [sends EXCEPT ![s] = [@ EXCEPT !.pc = "stt"]]
       ELSE \E ok \in BOOLEAN :
               IF ok
               THEN sends' = [sends EXCEPT ![s] =
                        [@ EXCEPT !.pc = "stt", !.asked = Asked(s, "original"),
                                  !.originalAudioUrl =
                                      [url |-> "original", r |-> ""]]]
               ELSE ThrowAsked(s, "original",
                          Err("cloudinary-original", "upload failed"))
    /\ UNCHANGED <<preferredLanguage, conversations, members, messages, events,
                   removals, directs, sockets, history, screens>>

\* services/stt.js fromBcp47Language: the part of the code before "-".
fromBcp47Language(code) ==
    IF code = "hi-IN" THEN "hi"
    ELSE IF code = "en-IN" THEN "en"
    ELSE ""

\* services/stt.js speechToText, the value it returns for the provider's
\* answer: the transcript and a language that is never absent.
speechToText(audio, hintLanguage) ==
    [text |-> audio.said,
     language |-> IF fromBcp47Language(audio.code) # ""
                  THEN fromBcp47Language(audio.code)
                  ELSE IF hintLanguage = "auto" THEN "en" ELSE hintLanguage]

\* speechToText(audioBase64, sender.preferredLanguage || "auto") and the
\* choice of the source language that follows it.
SpeechToText(s) ==
    /\ sends[s].pc = "stt"
    /\ LET sender == FindSender(sends[s].list, sends[s].senderId)
           stt == speechToText(sends[s].audio, sender.preferredLanguage)
       IN  IF Trim(sends[s].audio.data) = ""
           THEN Throw(s, Err("sarvam-stt", "audioBase64 is required for STT"))
           ELSE \E ok \in BOOLEAN :
                   IF ok
                   THEN sends' = [sends EXCEPT ![s] =
                            [@ EXCEPT !.pc = "translate", !.i = 1,
                                      !.asked = Asked(s, "stt"),
                                      !.sourceText = stt.text,
                                      !.sourceLanguage =
                                          IF stt.language # ""
                                          THEN stt.language
                                          ELSE detectLanguage(stt.text,
                                                   sender.preferredLanguage)]]
                   ELSE ThrowAsked(s, "stt",
                          Err("sarvam-stt", "Sarvam STT failed"))
    /\ UNCHANGED <<preferredLanguage, conversations, members, messages, events,
                   removals, directs, sockets, history, screens>>

\* translateText(sourceText, recipient.preferredLanguage, sourceLanguage)
\* for the current recipient, in both pipelines.
Translate(s) ==
    /\ sends[s].pc = "translate"
    /\ LET src == sends[s].sourceText
           target == Recipient(s).preferredLanguage
           after == IF IsVoice(s) THEN "tts" ELSE "persist"
       IN  IF TranslateRoute(src, target, sends[s].sourceLanguage) = "engine"
           THEN \E ok \in BOOLEAN :
                   IF ok
                   THEN sends' = [sends EXCEPT ![s] =
                            [@ EXCEPT !.pc = after, !.asked = Asked(s, "translate"),
                                      !.translatedText =
                                          translateText(src, target,
                                                        sends[s].sourceLanguage)]]
                   ELSE ThrowAsked(s, "translate",
                          Tagged(s, "lingo-translate", "translation failed"))
           ELSE sends' = [sends EXCEPT ![s] =
                    [@ EXCEPT !.pc = after,
                              !.translatedText =
                                  translateText(src, target, sends[s].sourceLanguage)]]
    /\ UNCHANGED <<preferredLanguage, conversations, members, messages, events,
                   removals, directs, sockets, history, screens>>

\* textToSpeechBase64(translatedText, recipient.preferredLanguage): null
\* without a call when the text is blank.
Synthesize(s) ==
    /\ sends[s].pc = "tts"
    /\ IF Trim(sends[s].translatedText.w) = ""
       THEN sends' = [sends EXCEPT ![s] = [@ EXCEPT !.pc = "uploadTr", !.ttsAudio = Null]]
       ELSE \E ok \in BOOLEAN :
               IF ok
               THEN sends' = [sends EXCEPT ![s] =
                        [@ EXCEPT !.pc = "uploadTr", !.asked = Asked(s, "tts"),
                                  !.ttsAudio =
                                      [data |-> "b64", said |-> sends[s].translatedText,
                                       code |-> ""]]]
               ELSE ThrowAsked(s, "tts",
                          Err("sarvam-tts", "Sarvam TTS failed"))
    /\ UNCHANGED <<preferredLanguage, conversations, members, messages, events,
                   removals, directs, sockets, history, screens>>

\* uploadAudioBase64(ttsAudioBase64, `translated_${conversationId}_${recipient.id}`)
UploadTranslated(s) ==
    /\ sends[s].pc = "uploadTr"
    /\ IF sends[s].ttsAudio = Null
       THEN sends' = [sends EXCEPT ![s] =
                [@ EXCEPT !.pc = "persist", !.translatedAudioUrl = Null]]
       ELSE \E ok \in BOOLEAN :
               IF ok
               THEN sends' = [sends EXCEPT ![s] =
                        [@ EXCEPT !.pc = "persist", !.asked = Asked(s, "upload"),
                                  !.translatedAudioUrl =
                                      [url |-> "translated", r |-> Recipient(s).id]]]
               ELSE ThrowAsked(s, "upload",
                          Err("cloudinary-translated", "upload failed"))
    /\ UNCHANGED <<preferredLanguage, conversations, members, messages, events,
                   removals, directs, sockets, history, screens>>

\* The row prisma.message.create writes for the current recipient.  send,
\* member and recipientId record which send wrote it, on which pass of its
\* loop and for which member.
MessageRow(s) ==
    [id |-> Len(messages) + 1,
     conversationId |-> sends[s].conversationId,
     senderId |-> sends[s].senderId,
     kind |-> IF IsVoice(s) THEN "VOICE" ELSE "TEXT",
     originalText |-> sends[s].sourceText,
     translatedText |-> sends[s].translatedText,
     sourceLanguage |-> sends[s].sourceLanguage,
     targetLanguage |-> Recipient(s).preferredLanguage,
     originalAudioUrl |-> IF IsVoice(s) THEN sends[s].originalAudioUrl ELSE Null,
     translatedAudioUrl |-> IF IsVoice(s) THEN sends[s].translatedAudioUrl ELSE Null,
     send |-> s, member |-> sends[s].i, recipientId |-> Recipient(s).id]

\* The sockets that are in the room of a conversation.
SocketsIn(conversationId) ==
    { k \in DOMAIN sockets : conversationId \in sockets[k].rooms }

\* The payload of io.to(conversationId).emit for the row just written; to
\* records the sockets the emit goes to, those in the room at that moment.
FanOutEvent(s, message) ==
    [name |-> IF IsVoice(s) THEN "receiveVoiceMessage" ELSE "receiveMessage",
     room |-> sends[s].conversationId,
     id |-> message.id,
     conversationId |-> sends[s].conversationId,
     senderId |-> sends[s].senderId,
     original |-> sends[s].sourceText,
     translated |-> sends[s].translatedText,
     sourceLanguage |-> sends[s].sourceLanguage,
     targetLanguage |-> Recipient(s).preferredLanguage,
     audioBase64 |-> IF IsVoice(s) THEN sends[s].ttsAudio ELSE Null,
     translatedAudioUrl |-> IF IsVoice(s) THEN sends[s].translatedAudioUrl ELSE Null,
     originalAudioUrl |-> IF IsVoice(s) THEN sends[s].originalAudioUrl ELSE Null,
     kind |-> IF IsVoice(s) THEN "voice" ELSE "text",
     send |-> s, member |-> sends[s].i, recipientId |-> Recipient(s).id,
     to |-> SocketsIn(sends[s].conversationId)]

\* A handler whose catch deletes the rows the send has written when the
\* create fails.
PersistThenCompensate(s) ==
    /\ sends[s].pc = "persist"
    /\ \E ok \in BOOLEAN :
          IF ok
          THEN /\ messages' = Append(messages, MessageRow(s))
               /\ events' = Append(events, FanOutEvent(s, MessageRow(s)))
               /\ IF sends[s].i < Len(sends[s].list)
                  THEN sends' = [sends EXCEPT ![s] =
                           [@ EXCEPT !.pc = "translate", !.i = @ + 1,
                                     !.translatedText = EmptyText,
                                     !.ttsAudio = Null,
                                     !.translatedAudioUrl = Null]]
                  ELSE Finish(s, AckOk(sends[s].entry, sends[s].traceId))
          ELSE /\ Throw(s, Tagged(s, "db-save", "create failed"))
               /\ messages' = SelectSeq(messages, LAMBDA m : m.send # s)
               /\ UNCHANGED events
    /\ UNCHANGED <<preferredLanguage, conversations, members, removals,
                   directs, sockets, history, screens>>

\* A handler that emits before it awaits the create: the event goes out
\* whether or not the row is written.
PersistEmitFirst(s) ==
    /\ sends[s].pc = "persist"
    /\ events' = Append(events, FanOutEvent(s, MessageRow(s)))
    /\ \E ok \in BOOLEAN :
          IF ok
          THEN /\ messages' = Append(messages, MessageRow(s))
               /\ IF sends[s].i < Len(sends[s].list)
                  THEN sends' = [sends EXCEPT ![s] =
                           [@ EXCEPT !.pc = "translate", !.i = @ + 1,
                                     !.translatedText = EmptyText,
                                     !.ttsAudio = Null,
                                     !.translatedAudioUrl = Null]]
                  ELSE Finish(s, AckOk(sends[s].entry, sends[s].traceId))
          ELSE /\ Throw(s, Tagged(s, "db-save", "create failed"))
               /\ UNCHANGED messages
    /\ UNCHANGED <<preferredLanguage, conversations, members, removals, directs,
                   sockets, history, screens>>

\* prisma.message.create for the current recipient and, when it resolves,
\* the emit to the room; then the next recipient, or the acknowledgment
\* after the last one.
Persist(s) ==
    /\ sends[s].pc = "persist"
    /\ \E ok \in BOOLEAN :
          IF ok
          THEN /\ messages' = Append(messages, MessageRow(s))
               /\ events' = Append(events, FanOutEvent(s, MessageRow(s)))
               /\ IF sends[s].i < Len(sends[s].list)
                  THEN sends' = [sends EXCEPT ![s] =
                           [@ EXCEPT !.pc = "translate", !.i = @ + 1,
                                     !.translatedText = EmptyText,
                                     !.ttsAudio = Null,
                                     !.translatedAudioUrl = Null]]
                  ELSE Finish(s, AckOk(sends[s].entry, sends[s].traceId))
          ELSE /\ Throw(s, Tagged(s, "db-save", "create failed"))
               /\ UNCHANGED <<messages, events, screens>>
    /\ UNCHANGED <<preferredLanguage, conversations, members, removals, directs,
                   sockets, history, screens>>

\* PATCH /users/me with a preferredLanguage.
ChangeLanguage(userId, language) ==
    /\ preferredLanguage[userId] # language
    /\ preferredLanguage' = [preferredLanguage EXCEPT ![userId] = language]
    /\ UNCHANGED <<conversations, members, messages, events, sends, removals,
                   directs, sockets, history, screens>>

(***************************************************************************)
(* The delivery pipeline over a conversation that exists: group 1, which   *)
(* u1 created with u2, or with u2 and u3.  u4 is a user outside it.        *)
(***************************************************************************)
Membership(conversationId, userId, role) ==
    [conversationId |-> conversationId, userId |-> userId, role |-> role]

ConversationIds == {1}

Init ==
    /\ preferredLanguage = [u \in Users |-> "en"]
    /\ conversations = << [type |-> "GROUP", createdBy |-> "u1", name |-> ""] >>
    /\ members \in
          { << Membership(1, "u1", "ADMIN"), Membership(1, "u2", "MEMBER") >>,
            << Membership(1, "u1", "ADMIN"), Membership(1, "u2", "MEMBER"),
               Membership(1, "u3", "MEMBER") >> }
    /\ messages = <<>>
    /\ events = <<>>
    /\ sends = [s \in 1..MaxSends |-> IdleSend]
    /\ removals = <<>>
    /\ directs = <<>>
    /\ sockets = <<>>
    /\ history = Null
    /\ screens = <<>>

Senders == {"u2", "u4"}
LanguageChangers == {"u2"}

Next ==
    \/ \E s \in DOMAIN sends, c \in ConversationIds, u \in Senders, t \in Texts :
          StartSendMessage(s, c, u, t)
    \/ \E s \in DOMAIN sends, c \in ConversationIds, u \in Senders, a \in Audios :
          StartSendVoiceMessage(s, c, u, a)
    \/ \E s \in DOMAIN sends, c \in ConversationIds, u \in Senders, a \in Audios :
          StartHttpVoice(s, c, u, a)
    \/ \E s \in DOMAIN sends : LoadMembers(s)
    \/ \E s \in DOMAIN sends : UploadOriginal(s)
    \/ \E s \in DOMAIN sends : SpeechToText(s)
    \/ \E s \in DOMAIN sends : Translate(s)
    \/ \E s \in DOMAIN sends : Synthesize(s)
    \/ \E s \in DOMAIN sends : UploadTranslated(s)
    \/ \E s \in DOMAIN sends : Persist(s)
    \/ \E u \in LanguageChangers, l \in Langs : ChangeLanguage(u, l)

Spec == Init /\ [][Next]_vars

\* The step of the send s that is due: the continuation of the handler
\* after the await it is at.
SendStep(s) ==
    \/ LoadMembers(s)
    \/ UploadOriginal(s)
    \/ SpeechToText(s)
    \/ Translate(s)
    \/ Synthesize(s)
    \/ UploadTranslated(s)
    \/ Persist(s)

LiveTexts == { BlankText, [w |-> "ok", l |-> "und"] }
LiveAudios ==
    { BlankAudio,
      [data |-> "b64", said |-> [w |-> "coffee", l |-> "hi"], code |-> "hi-IN"] }
LiveSends == << IdleSend, IdleSend >>

\* Two sends to group 1 of u1 and u2, by the member u2 or by u4.
InitLive ==
    /\ preferredLanguage = [u \in Users |-> "en"]
    /\ conversations = << [type |-> "GROUP", createdBy |-> "u1", name |-> ""] >>
    /\ members = << Membership(1, "u1", "ADMIN"), Membership(1, "u2", "MEMBER") >>
    /\ messages = <<>>
    /\ events = <<>>
    /\ sends = LiveSends
    /\ removals = <<>>
    /\ directs = <<>>
    /\ sockets = <<>>
    /\ history = Null
    /\ screens = <<>>

NextLive ==
    \/ \E s \in DOMAIN sends, u \in Senders, t \in LiveTexts :
          StartSendMessage(s, 1, u, t)
    \/ \E s \in DOMAIN sends, u \in Senders, a \in LiveAudios :
          StartSendVoiceMessage(s, 1, u, a)
    \/ \E s \in DOMAIN sends, u \in Senders, a \in LiveAudios :
          StartHttpVoice(s, 1, u, a)
    \/ \E s \in DOMAIN sends : SendStep(s)

\* Every call a handler awaits returns or fails: a handler that can go on
\* does go on.
SpecLive ==
    InitLive /\ [][NextLive]_vars
        /\ \A s \in 1..Len(LiveSends) : WF_vars(SendStep(s))

(***************************************************************************)
(* Sends served one after another in group 1 of u1 and u2, with PATCH      *)
(* /users/me requests of u2 between them.                                  *)
(***************************************************************************)
Running(s) == sends[s].pc \notin {"idle", "done"}
NoSendRunning == \A s \in DOMAIN sends : ~Running(s)

SerialSendMessage(s, conversationId, senderId, text) ==
    /\ NoSendRunning
    /\ StartSendMessage(s, conversationId, senderId, text)

SerialSendVoiceMessage(s, conversationId, senderId, audio) ==
    /\ NoSendRunning
    /\ StartSendVoiceMessage(s, conversationId, senderId, audio)

ChangeLanguageBetween(userId, language) ==
    /\ NoSendRunning
    /\ ChangeLanguage(userId, language)

SerialTexts == { [w |-> "ok", l |-> "und"] }
SerialAudios ==
    { [data |-> "b64", said |-> [w |-> "coffee", l |-> "hi"], code |-> "hi-IN"] }
SerialSenders == {"u1"}

InitSerial ==
    /\ preferredLanguage = [u \in Users |-> "en"]
    /\ conversations = << [type |-> "GROUP", createdBy |-> "u1", name |-> ""] >>
    /\ members = << Membership(1, "u1", "ADMIN"), Membership(1, "u2", "MEMBER") >>
    /\ messages = <<>>
    /\ events = <<>>
    /\ sends = [s \in 1..MaxSerial |-> IdleSend]
    /\ removals = <<>>
    /\ directs = <<>>
    /\ sockets = <<>>
    /\ history = Null
    /\ screens = <<>>

NextSerial ==
    \/ \E s \in DOMAIN sends, u \in SerialSenders, t \in SerialTexts :
          SerialSendMessage(s, 1, u, t)
    \/ \E s \in DOMAIN sends, u \in SerialSenders, a \in SerialAudios :
          SerialSendVoiceMessage(s, 1, u, a)
    \/ \E s \in DOMAIN sends : LoadMembers(s)
    \/ \E s \in DOMAIN sends : UploadOriginal(s)
    \/ \E s \in DOMAIN sends : SpeechToText(s)
    \/ \E s \in DOMAIN sends : Translate(s)
    \/ \E s \in DOMAIN sends : Synthesize(s)
    \/ \E s \in DOMAIN sends : UploadTranslated(s)
    \/ \E s \in DOMAIN sends : Persist(s)
    \/ \E u \in LanguageChangers, l \in Langs : ChangeLanguageBetween(u, l)

SpecSerial == InitSerial /\ [][NextSerial]_vars

(***************************************************************************)
(* Groups: POST /conversations/group, POST and DELETE                      *)
(* /conversations/:conversationId/members.                                 *)
(***************************************************************************)
MaxGroups == 1

ConversationExists(conversationId) == conversationId \in 1..Len(conversations)

\* isGroupAdmin: the conversation is a GROUP and the user's membership in
\* it has role ADMIN.
isGroupAdmin(conversationId, userId) ==
    /\ ConversationExists(conversationId)
    /\ conversations[conversationId].type = "GROUP"
    /\ \E k \in 1..Len(members) :
          /\ members[k].conversationId = conversationId
          /\ members[k].userId = userId
          /\ members[k].role = "ADMIN"

\* [...new Set(memberUserIds)].filter((id) => id !== creator), in order.
RECURSIVE uniqueMemberIds(_, _)
uniqueMemberIds(memberUserIds, creator) ==
    IF memberUserIds = <<>> THEN <<>>
    ELSE LET n == Len(memberUserIds)
             front == uniqueMemberIds(SubSeq(memberUserIds, 1, n - 1), creator)
             last == memberUserIds[n]
         IN  IF last = creator \/ \E k \in 1..Len(front) : front[k] = last
             THEN front
             ELSE Append(front, last)

Groups == { c \in 1..Len(conversations) : conversations[c].type = "GROUP" }

\* POST /conversations/group: the creator becomes the ADMIN and the other
\* users MEMBERs of a new GROUP conversation, written in one create.  A
\* request without another member is answered 400 and changes nothing.
CreateGroup(creator, memberUserIds) ==
    /\ Cardinality(Groups) < MaxGroups
    /\ Len(uniqueMemberIds(memberUserIds, creator)) >= 1
    /\ LET id == Len(conversations) + 1
           others == uniqueMemberIds(memberUserIds, creator)
       IN  /\ conversations' =
                  Append(conversations,
                         [type |-> "GROUP", createdBy |-> creator, name |-> ""])
           /\ members' = members \o <<Membership(id, creator, "ADMIN")>> \o
                  [k \in 1..Len(others) |-> Membership(id, others[k], "MEMBER")]
    /\ UNCHANGED <<preferredLanguage, messages, events, sends, removals,
                   directs, sockets, history, screens>>

\* POST /conversations/:conversationId/members: a request of an admin of
\* the group upserts a MEMBER membership (update: {} leaves an existing one
\* as it is); any other request is answered 403 and changes nothing.
AddMember(conversationId, requester, userId) ==
    /\ isConversationMember(conversationId, requester)
    /\ isGroupAdmin(conversationId, requester)
    /\ ~isConversationMember(conversationId, userId)
    /\ members' = Append(members, Membership(conversationId, userId, "MEMBER"))
    /\ UNCHANGED <<preferredLanguage, conversations, messages, events, sends,
                   removals, directs, sockets, history, screens>>

IdleRemoval ==
    [pc |-> "idle", conversationId |-> 0, requester |-> "", userId |-> "",
     targetRole |-> "", adminCount |-> 0, status |-> 0, error |-> ""]

Respond(r, status, error) ==
    removals' = [removals EXCEPT ![r] =
        [@ EXCEPT !.pc = "done", !.status = status, !.error = error]]

\* The count without its role filter.
MemberCount(conversationId) ==
    Cardinality({ k \in 1..Len(members) : members[k].conversationId = conversationId })

\* prisma.conversationMember.count({ where: { conversationId, role: "ADMIN" } })
AdminCount(conversationId) ==
    Cardinality({ k \in 1..Len(members) :
                    /\ members[k].conversationId = conversationId
                    /\ members[k].role = "ADMIN" })

TargetMember(conversationId, userId) ==
    IF isConversationMember(conversationId, userId)
    THEN members[CHOOSE k \in 1..Len(members) :
                    /\ members[k].conversationId = conversationId
                    /\ members[k].userId = userId]
    ELSE Null

\* DELETE /conversations/:conversationId/members/:userId, up to the result
\* of isGroupAdmin: the requester must be a member and an admin.
RemoveAuthorize(r, conversationId, requester, userId) ==
    /\ removals[r].pc = "idle"
    /\ \A q \in DOMAIN removals : q < r => removals[q].pc # "idle"
    /\ LET begun == [IdleRemoval EXCEPT !.conversationId = conversationId,
                                        !.requester = requester, !.userId = userId]
       IN  IF ~isConversationMember(conversationId, requester)
           THEN removals' = [removals EXCEPT ![r] =
                    [begun EXCEPT !.pc = "done", !.status = 403,
                                  !.error = "Not a member of this conversation"]]
           ELSE IF ~isGroupAdmin(conversationId, requester)
           THEN removals' = [removals EXCEPT ![r] =
                    [begun EXCEPT !.pc = "done", !.status = 403,
                                  !.error = "Admin permission required"]]
           ELSE removals' = [removals EXCEPT ![r] = [begun EXCEPT !.pc = "target"]]
    /\ UNCHANGED <<preferredLanguage, conversations, members, messages, events,
                   sends, directs, sockets, history, screens>>

\* The findUnique of the target membership.
RemoveFindTarget(r) ==
    /\ removals[r].pc = "target"
    /\ LET targetMember == TargetMember(removals[r].conversationId, removals[r].userId)
       IN  IF targetMember = Null
           THEN Respond(r, 404, "Member not found")
           ELSE removals' = [removals EXCEPT ![r] =
                    [@ EXCEPT !.targetRole = targetMember.role,
                              !.pc = IF targetMember.role = "ADMIN"
                                     THEN "count" ELSE "delete"]]
    /\ UNCHANGED <<preferredLanguage, conversations, members, messages, events,
                   sends, directs, sockets, history, screens>>

\* The check with < in the place of <=.
LastAdminOffByOne(adminCount) == adminCount < 1

\* The admin may go only when the count of admins it reads is above 1.
LastAdmin(adminCount) == adminCount <= 1

\* The count of the admins, when the target is one.
RemoveCountAdmins(r) ==
    /\ removals[r].pc = "count"
    /\ LET adminCount == AdminCount(removals[r].conversationId)
       IN  IF LastAdmin(adminCount)
           THEN removals' = [removals EXCEPT ![r] =
                    [@ EXCEPT !.pc = "done", !.adminCount = adminCount,
                              !.status = 400, !.error = "Cannot remove last admin"]]
           ELSE removals' = [removals EXCEPT ![r] =
                    [@ EXCEPT !.pc = "delete", !.adminCount = adminCount]]
    /\ UNCHANGED <<preferredLanguage, conversations, members, messages, events,
                   sends, directs, sockets, history, screens>>

\* A delete that takes the Message rows the removed member has sent.
RemoveDeleteCascade(r) ==
    /\ removals[r].pc = "delete"
    /\ IF isConversationMember(removals[r].conversationId, removals[r].userId)
       THEN /\ members' = SelectSeq(members, LAMBDA m :
                             ~(/\ m.conversationId = removals[r].conversationId
                               /\ m.userId = removals[r].userId))
            /\ messages' = SelectSeq(messages, LAMBDA m :
                             ~(/\ m.conversationId = removals[r].conversationId
                               /\ m.senderId = removals[r].userId))
            /\ Respond(r, 200, "")
       ELSE /\ Respond(r, 400, "Record to delete does not exist")
            /\ UNCHANGED <<members, messages, screens>>
    /\ UNCHANGED <<preferredLanguage, conversations, events, sends, directs,
                   sockets, history, screens>>

\* The delete; it throws when the membership is gone by now, and the catch
\* block answers 400.
RemoveDelete(r) ==
    /\ removals[r].pc = "delete"
    /\ IF isConversationMember(removals[r].conversationId, removals[r].userId)
       THEN /\ members' = SelectSeq(members, LAMBDA m :
                             ~(/\ m.conversationId = removals[r].conversationId
                               /\ m.userId = removals[r].userId))
            /\ Respond(r, 200, "")
       ELSE /\ Respond(r, 400, "Record to delete does not exist")
            /\ UNCHANGED members
    /\ UNCHANGED <<preferredLanguage, conversations, messages, events, sends,
                   directs, sockets, history, screens>>

GroupCreators == {"u1"}
GroupInvites == { <<"u2", "u3">>, <<"u1", "u2", "u2">> }
Requesters == {"u1", "u2"}
Targets == {"u1", "u2"}
Invitees == {"u3", "u4"}

InitGroups ==
    /\ preferredLanguage = [u \in Users |-> "en"]
    /\ conversations = <<>>
    /\ members = <<>>
    /\ messages = <<>>
    /\ events = <<>>
    /\ sends = <<>>
    /\ removals = [r \in 1..MaxRemovals |-> IdleRemoval]
    /\ directs = <<>>
    /\ sockets = <<>>
    /\ history = Null
    /\ screens = <<>>

NextGroups ==
    \/ \E u \in GroupCreators, ids \in GroupInvites : CreateGroup(u, ids)
    \/ \E c \in 1..Len(conversations), u \in Requesters, v \in Invitees :
          AddMember(c, u, v)
    \/ \E r \in DOMAIN removals, c \in 1..Len(conversations),
          u \in Requesters, v \in Targets : RemoveAuthorize(r, c, u, v)
    \/ \E r \in DOMAIN removals : RemoveFindTarget(r)
    \/ \E r \in DOMAIN removals : RemoveCountAdmins(r)
    \/ \E r \in DOMAIN removals : RemoveDelete(r)

SpecGroups == InitGroups /\ [][NextGroups]_vars

(***************************************************************************)
(* One send in group 1 of u1, u2 and u3 while u2 changes language, the     *)
(* admin adds members and members are removed.                             *)
(***************************************************************************)
ChurnSenders == {"u2"}

InitChurn ==
    /\ preferredLanguage = [u \in Users |-> "en"]
    /\ conversations = << [type |-> "GROUP", createdBy |-> "u1", name |-> ""] >>
    /\ members = << Membership(1, "u1", "ADMIN"), Membership(1, "u2", "MEMBER"),
                    Membership(1, "u3", "MEMBER") >>
    /\ messages = <<>>
    /\ events = <<>>
    /\ sends = << IdleSend >>
    /\ removals = << IdleRemoval >>
    /\ directs = <<>>
    /\ sockets = <<>>
    /\ history = Null
    /\ screens = <<>>

NextChurn ==
    \/ \E s \in DOMAIN sends, u \in ChurnSenders, t \in SerialTexts :
          StartSendMessage(s, 1, u, t)
    \/ \E s \in DOMAIN sends, u \in ChurnSenders, a \in SerialAudios :
          StartSendVoiceMessage(s, 1, u, a)
    \/ \E s \in DOMAIN sends : LoadMembers(s)
    \/ \E s \in DOMAIN sends : UploadOriginal(s)
    \/ \E s \in DOMAIN sends : SpeechToText(s)
    \/ \E s \in DOMAIN sends : Translate(s)
    \/ \E s \in DOMAIN sends : Synthesize(s)
    \/ \E s \in DOMAIN sends : UploadTranslated(s)
    \/ \E s \in DOMAIN sends : Persist(s)
    \/ \E u \in LanguageChangers, l \in Langs : ChangeLanguage(u, l)
    \/ \E u \in Requesters, v \in Invitees : AddMember(1, u, v)
    \/ \E r \in DOMAIN removals, u \in Requesters, v \in Targets :
          RemoveAuthorize(r, 1, u, v)
    \/ \E r \in DOMAIN removals : RemoveFindTarget(r)
    \/ \E r \in DOMAIN removals : RemoveCountAdmins(r)
    \/ \E r \in DOMAIN removals : RemoveDelete(r)

SpecChurn == InitChurn /\ [][NextChurn]_vars

(***************************************************************************)
(* Two sends to group 1 of u1, u2 and u3 that run at the same time.        *)
(***************************************************************************)
InitConcurrent ==
    /\ preferredLanguage = [u \in Users |-> "en"]
    /\ conversations = << [type |-> "GROUP", createdBy |-> "u1", name |-> ""] >>
    /\ members = << Membership(1, "u1", "ADMIN"), Membership(1, "u2", "MEMBER"),
                    Membership(1, "u3", "MEMBER") >>
    /\ messages = <<>>
    /\ events = <<>>
    /\ sends = << IdleSend, IdleSend >>
    /\ removals = <<>>
    /\ directs = <<>>
    /\ sockets = <<>>
    /\ history = Null
    /\ screens = <<>>

NextConcurrent ==
    \/ \E s \in DOMAIN sends, u \in ChurnSenders, t \in SerialTexts :
          StartSendMessage(s, 1, u, t)
    \/ \E s \in DOMAIN sends, u \in ChurnSenders, a \in SerialAudios :
          StartSendVoiceMessage(s, 1, u, a)
    \/ \E s \in DOMAIN sends : LoadMembers(s)
    \/ \E s \in DOMAIN sends : UploadOriginal(s)
    \/ \E s \in DOMAIN sends : SpeechToText(s)
    \/ \E s \in DOMAIN sends : Translate(s)
    \/ \E s \in DOMAIN sends : Synthesize(s)
    \/ \E s \in DOMAIN sends : UploadTranslated(s)
    \/ \E s \in DOMAIN sends : Persist(s)

SpecConcurrent == InitConcurrent /\ [][NextConcurrent]_vars

(***************************************************************************)
(* PATCH /conversations/:conversationId/group and GET                      *)
(* /conversations/:conversationId/messages, beside the send and the        *)
(* changes of SpecChurn.                                                   *)
(***************************************************************************)
\* PATCH group: a request of an admin of the group sets its name; any
\* other request is answered 403 and changes nothing.
UpdateGroup(conversationId, requester, name) ==
    /\ isConversationMember(conversationId, requester)
    /\ isGroupAdmin(conversationId, requester)
    /\ conversations[conversationId].name # name
    /\ conversations' = [conversations EXCEPT ![conversationId].name = name]
    /\ UNCHANGED <<preferredLanguage, members, messages, events, sends,
                   removals, directs, sockets, history, screens>>

\* GET messages: 403 for a user outside the conversation, else every row
\* of the conversation in the order of creation.
GetMessages(conversationId, userId) ==
    /\ history' =
          IF ~isConversationMember(conversationId, userId)
          THEN [userId |-> userId, status |-> 403, messages |-> <<>>]
          ELSE [userId |-> userId, status |-> 200,
                messages |-> SelectSeq(messages,
                                 LAMBDA m : m.conversationId = conversationId)]
    /\ UNCHANGED <<preferredLanguage, conversations, members, messages, events,
                   sends, removals, directs, sockets, screens>>

GroupNames == {"team"}
Readers == {"u2", "u4"}

NextStore ==
    \/ NextChurn
    \/ \E u \in Requesters, n \in GroupNames : UpdateGroup(1, u, n)
    \/ \E u \in Readers : GetMessages(1, u)

SpecStore == InitChurn /\ [][NextStore]_vars

(***************************************************************************)
(* POST /conversations/direct.                                             *)
(***************************************************************************)
UsersOf(conversationId) ==
    { members[k].userId : k \in { j \in 1..Len(members) :
                                    members[j].conversationId = conversationId } }

\* A lookup that asks for the requester as the first member written.
FindDirectAsCreator(userId, contactUserId) ==
    { c \in 1..Len(conversations) :
        /\ conversations[c].type = "DIRECT"
        /\ MemberRows(c) # <<>>
        /\ MemberRows(c)[1].userId = userId
        /\ contactUserId \in UsersOf(c) }

\* The where clause of the findFirst: a DIRECT conversation with some
\* member the requester, some member the contact and every member one of
\* the two.
FindDirect(userId, contactUserId) ==
    { c \in 1..Len(conversations) :
        /\ conversations[c].type = "DIRECT"
        /\ userId \in UsersOf(c)
        /\ contactUserId \in UsersOf(c)
        /\ UsersOf(c) \subseteq {userId, contactUserId} }

IdleDirect ==
    [pc |-> "idle", userId |-> "", contactUserId |-> "", status |-> 0, id |-> 0]

\* The handler up to the result of the findFirst: 400 for oneself as the
\* contact, the conversation found (any one the query matches, it states
\* no order), or on to the create.
DirectLookup(d, userId, contactUserId) ==
    /\ directs[d].pc = "idle"
    /\ \A q \in DOMAIN directs : q < d => directs[q].pc # "idle"
    /\ LET begun == [IdleDirect EXCEPT !.userId = userId,
                                       !.contactUserId = contactUserId]
           existing == FindDirect(userId, contactUserId)
       IN  IF contactUserId = userId
           THEN directs' = [directs EXCEPT ![d] =
                    [begun EXCEPT !.pc = "done", !.status = 400]]
           ELSE IF existing # {}
           THEN \E c \in existing :
                   directs' = [directs EXCEPT ![d] =
                       [begun EXCEPT !.pc = "done", !.status = 200, !.id = c]]
           ELSE directs' = [directs EXCEPT ![d] = [begun EXCEPT !.pc = "create"]]
    /\ UNCHANGED <<preferredLanguage, conversations, members, messages, events,
                   sends, removals, sockets, history, screens>>

\* A create that makes the requester the ADMIN of the conversation.
DirectCreateAsAdmin(d) ==
    /\ directs[d].pc = "create"
    /\ LET id == Len(conversations) + 1
       IN  /\ conversations' =
                  Append(conversations,
                         [type |-> "DIRECT", createdBy |-> "", name |-> ""])
           /\ members' = members \o
                  << Membership(id, directs[d].userId, "ADMIN"),
                     Membership(id, directs[d].contactUserId, "MEMBER") >>
           /\ directs' = [directs EXCEPT ![d] =
                  [@ EXCEPT !.pc = "done", !.status = 201, !.id = id]]
    /\ UNCHANGED <<preferredLanguage, messages, events, sends, removals,
                   sockets, history, screens>>

\* prisma.conversation.create with the two MEMBER memberships.
DirectCreate(d) ==
    /\ directs[d].pc = "create"
    /\ LET id == Len(conversations) + 1
       IN  /\ conversations' =
                  Append(conversations,
                         [type |-> "DIRECT", createdBy |-> "", name |-> ""])
           /\ members' = members \o
                  << Membership(id, directs[d].userId, "MEMBER"),
                     Membership(id, directs[d].contactUserId, "MEMBER") >>
           /\ directs' = [directs EXCEPT ![d] =
                  [@ EXCEPT !.pc = "done", !.status = 201, !.id = id]]
    /\ UNCHANGED <<preferredLanguage, messages, events, sends, removals,
                   sockets, history, screens>>

\* The same handler while no other request for a direct conversation is
\* between its findFirst and its create: requests served one after another.
DirectLookupAlone(d, userId, contactUserId) ==
    /\ \A q \in DOMAIN directs : directs[q].pc # "create"
    /\ DirectLookup(d, userId, contactUserId)

DirectUsers == {"u2", "u3", "u4"}

\* The users already share group 1, which u1 created with u2 and u4.
InitDirects ==
    /\ preferredLanguage = [u \in Users |-> "en"]
    /\ conversations = << [type |-> "GROUP", createdBy |-> "u1", name |-> ""] >>
    /\ members = << Membership(1, "u1", "ADMIN"), Membership(1, "u2", "MEMBER"),
                    Membership(1, "u4", "MEMBER") >>
    /\ messages = <<>>
    /\ events = <<>>
    /\ sends = <<>>
    /\ removals = <<>>
    /\ directs = [d \in 1..MaxDirects |-> IdleDirect]
    /\ sockets = <<>>
    /\ history = Null
    /\ screens = <<>>

NextDirects ==
    \/ \E d \in DOMAIN directs, u \in DirectUsers, v \in DirectUsers :
          DirectLookup(d, u, v)
    \/ \E d \in DOMAIN directs : DirectCreate(d)

SpecDirects == InitDirects /\ [][NextDirects]_vars

NextSequential ==
    \/ \E d \in DOMAIN directs, u \in DirectUsers, v \in DirectUsers :
          DirectLookupAlone(d, u, v)
    \/ \E d \in DOMAIN directs : DirectCreate(d)

SpecSequential == InitDirects /\ [][NextSequential]_vars

(***************************************************************************)
(* Requests to add and to remove members, against the direct conversations *)
(* as well as against group 1.                                             *)
(***************************************************************************)
DirectTargets == {"u1", "u3"}

InitDirectMembers ==
    /\ preferredLanguage = [u \in Users |-> "en"]
    /\ conversations = << [type |-> "GROUP", createdBy |-> "u1", name |-> ""] >>
    /\ members = << Membership(1, "u1", "ADMIN"), Membership(1, "u2", "MEMBER"),
                    Membership(1, "u4", "MEMBER") >>
    /\ messages = <<>>
    /\ events = <<>>
    /\ sends = <<>>
    /\ removals = << IdleRemoval >>
    /\ directs = [d \in 1..MaxDirects |-> IdleDirect]
    /\ sockets = <<>>
    /\ history = Null
    /\ screens = <<>>

NextDirectMembers ==
    \/ NextDirects
    \/ \E c \in 1..Len(conversations), u \in Requesters, v \in Invitees :
          AddMember(c, u, v)
    \/ \E r \in DOMAIN removals, c \in 1..Len(conversations),
          u \in Requesters, v \in DirectTargets : RemoveAuthorize(r, c, u, v)
    \/ \E r \in DOMAIN removals : RemoveFindTarget(r)
    \/ \E r \in DOMAIN removals : RemoveCountAdmins(r)
    \/ \E r \in DOMAIN removals : RemoveDelete(r)

SpecDirectMembers == InitDirectMembers /\ [][NextDirectMembers]_vars

(***************************************************************************)
(* socket.on("joinConversation").                                          *)
(***************************************************************************)
\* rooms are the conversation rooms the socket is in; data is socket.data;
\* member is what isConversationMember has answered to the running join.
IdleSocket ==
    [pc |-> "idle", conversationId |-> 0, userId |-> "", member |-> FALSE,
     rooms |-> {}, data |-> [userId |-> "", conversationId |-> 0],
     ack |-> Null]

\* The socket k when its handler has the answer of isConversationMember.
Checked(k, conversationId, userId) ==
    [sockets[k] EXCEPT !.pc = "checked", !.conversationId = conversationId,
                       !.userId = userId,
                       !.member = isConversationMember(conversationId, userId),
                       !.ack = Null]

\* The handler up to the answer of isConversationMember.
JoinCheck(k, conversationId, userId) ==
    /\ sockets[k].pc = "idle"
    /\ sockets' = [sockets EXCEPT ![k] = Checked(k, conversationId, userId)]
    /\ UNCHANGED <<preferredLanguage, conversations, members, messages, events,
                   sends, removals, directs, history, screens>>

\* A handler that joins whatever the answer was.
JoinAnswerUnchecked(k) ==
    /\ sockets[k].pc = "checked"
    /\ sockets' = [sockets EXCEPT ![k] =
           [@ EXCEPT !.pc = "idle",
                     !.rooms = @ \cup {sockets[k].conversationId},
                     !.data = [userId |-> sockets[k].userId,
                               conversationId |-> sockets[k].conversationId],
                     !.ack = [ok |-> TRUE, error |-> ""]]]
    /\ UNCHANGED <<preferredLanguage, conversations, members, messages, events,
                   sends, removals, directs, history, screens>>

\* The rest of the handler: the throw for a user who is not a member, which
\* the catch block answers; else socket.join, socket.data and the ack.
JoinAnswer(k) ==
    /\ sockets[k].pc = "checked"
    /\ IF ~sockets[k].member
       THEN sockets' = [sockets EXCEPT ![k] =
               [@ EXCEPT !.pc = "idle",
                         !.ack = [ok |-> FALSE,
                                  error |-> "User is not a member of this conversation"]]]
       ELSE sockets' = [sockets EXCEPT ![k] =
               [@ EXCEPT !.pc = "idle",
                         !.rooms = @ \cup {sockets[k].conversationId},
                         !.data = [userId |-> sockets[k].userId,
                                   conversationId |-> sockets[k].conversationId],
                         !.ack = [ok |-> TRUE, error |-> ""]]]
    /\ UNCHANGED <<preferredLanguage, conversations, members, messages, events,
                   sends, removals, directs, history, screens>>

Joiners == {"u2", "u4"}

\* Group 1 of u1, u2 and u3; u4 is outside it until the admin adds it.
InitRooms ==
    /\ preferredLanguage = [u \in Users |-> "en"]
    /\ conversations = << [type |-> "GROUP", createdBy |-> "u1", name |-> ""] >>
    /\ members = << Membership(1, "u1", "ADMIN"), Membership(1, "u2", "MEMBER"),
                    Membership(1, "u3", "MEMBER") >>
    /\ messages = <<>>
    /\ events = <<>>
    /\ sends = <<>>
    /\ removals = << IdleRemoval >>
    /\ directs = <<>>
    /\ sockets = [k \in 1..MaxSockets |-> IdleSocket]
    /\ history = Null
    /\ screens = <<>>

NextRooms ==
    \/ \E k \in DOMAIN sockets, u \in Joiners : JoinCheck(k, 1, u)
    \/ \E k \in DOMAIN sockets : JoinAnswer(k)
    \/ \E u \in Requesters, v \in Invitees : AddMember(1, u, v)
    \/ \E r \in DOMAIN removals, u \in Requesters, v \in Targets :
          RemoveAuthorize(r, 1, u, v)
    \/ \E r \in DOMAIN removals : RemoveFindTarget(r)
    \/ \E r \in DOMAIN removals : RemoveCountAdmins(r)
    \/ \E r \in DOMAIN removals : RemoveDelete(r)

SpecRooms == InitRooms /\ [][NextRooms]_vars

(***************************************************************************)
(* The chat screen of the mobile client (mobile/app/chat/[id].tsx) over    *)
(* the one socket of the app (mobile/app/lib/socket.ts).  Screen k is the  *)
(* screen of the client whose socket is socket k.                          *)
(***************************************************************************)
MaxDrops == 2

NoLoad == [pc |-> "idle", rows |-> <<>>]

\* The screen when its effect has run for the session user: loadMessages
\* has sent its request, joinRoom has emitted joinConversation, and the
\* handlers are registered.  language is user.preferredLanguage of the
\* session, seen the place in the events up to which the socket has handed
\* them to the screen, drops the disconnects the socket has had.
OpenScreen(userId, language, conversationId) ==
    [userId |-> userId, language |-> language,
     conversationId |-> conversationId,
     conn |-> "up", joinSent |-> TRUE, drops |-> 0, seen |-> 0,
     list |-> <<>>, load |-> [pc |-> "asked", rows |-> <<>>]]

\* What the screen keeps of a row or of an event.
Shown(m) ==
    [id |-> m.id, conversationId |-> m.conversationId,
     targetLanguage |-> m.targetLanguage, send |-> m.send]

\* A handler that tests the conversation only.
AcceptsAnyLanguage(k, msg) ==
    msg.conversationId = screens[k].conversationId

\* The two tests of onReceiveText and onReceiveVoice.
Accepts(k, msg) ==
    /\ msg.conversationId = screens[k].conversationId
    /\ msg.targetLanguage = screens[k].language

\* The events emitted to the socket k that it has not handed on yet.
Undelivered(k) ==
    { j \in (screens[k].seen + 1)..Len(events) : k \in events[j].to }

\* onReceiveText / onReceiveVoice for the next event of the socket: an
\* event that passes the tests is appended to the list.
onReceive(k) ==
    /\ screens[k].conn = "up"
    /\ Undelivered(k) # {}
    /\ LET j == CHOOSE i \in Undelivered(k) : \A h \in Undelivered(k) : i <= h
           msg == events[j]
       IN  screens' = [screens EXCEPT ![k] =
               [@ EXCEPT !.seen = j,
                         !.list = IF Accepts(k, msg)
                                  THEN Append(@, Shown(msg))
                                  ELSE @]]
    /\ UNCHANGED <<preferredLanguage, conversations, members, messages, events,
                   sends, removals, directs, sockets, history>>

\* GET /conversations/:conversationId/messages for the request of the
\* screen: every row of the conversation, or 403.
ServeMessages(k) ==
    /\ screens[k].load.pc = "asked"
    /\ screens' = [screens EXCEPT ![k].load =
           IF isConversationMember(screens[k].conversationId, screens[k].userId)
           THEN [pc |-> "answered",
                 rows |-> SelectSeq(messages,
                     LAMBDA m : m.conversationId = screens[k].conversationId)]
           ELSE [pc |-> "refused", rows |-> <<>>]]
    /\ UNCHANGED <<preferredLanguage, conversations, members, messages, events,
                   sends, removals, directs, sockets, history>>

\* loadMessages after its await: the rows in the language of the user
\* replace the list; a refusal leaves the list as it is.
loadMessages(k) ==
    /\ screens[k].load.pc \in {"answered", "refused"}
    /\ LET mapped == SelectSeq(screens[k].load.rows,
                         LAMBDA m : m.targetLanguage = screens[k].language)
       IN  screens' = [screens EXCEPT ![k] =
               [@ EXCEPT !.load = NoLoad,
                         !.list = IF screens[k].load.pc = "answered"
                                  THEN [i \in 1..Len(mapped) |-> Shown(mapped[i])]
                                  ELSE @]]
    /\ UNCHANGED <<preferredLanguage, conversations, members, messages, events,
                   sends, removals, directs, sockets, history>>

\* The joinConversation that joinRoom has emitted reaches the server: the
\* handler of the socket runs up to the answer of isConversationMember.
JoinRequested(k) ==
    /\ screens[k].conn = "up"
    /\ screens[k].joinSent
    /\ sockets[k].pc = "idle"
    /\ sockets' = [sockets EXCEPT ![k] =
           Checked(k, screens[k].conversationId, screens[k].userId)]
    /\ screens' = [screens EXCEPT ![k].joinSent = FALSE]
    /\ UNCHANGED <<preferredLanguage, conversations, members, messages, events,
                   sends, removals, directs, history>>

\* The connection of the socket is lost: the server forgets the socket
\* with its rooms, and what was on its way in either direction is gone.
Disconnect(k) ==
    /\ screens[k].conn = "up"
    /\ screens[k].drops < MaxDrops
    /\ screens' = [screens EXCEPT ![k] =
           [@ EXCEPT !.conn = "down", !.drops = @ + 1, !.joinSent = FALSE,
                     !.seen = Len(events)]]
    /\ sockets' = [sockets EXCEPT ![k] = IdleSocket]
    /\ UNCHANGED <<preferredLanguage, conversations, members, messages, events,
                   sends, removals, directs, history>>

\* A client that takes the socket to be in its rooms again when it is
\* connected again.
ReconnectAssumingRoom(k) ==
    /\ screens[k].conn = "down"
    /\ screens' = [screens EXCEPT ![k].conn = "up"]
    /\ UNCHANGED <<preferredLanguage, conversations, members, messages, events,
                   sends, removals, directs, sockets, history>>

\* The socket is connected again: the "connect" handler of the screen calls
\* joinRoom.
Reconnect(k) ==
    /\ screens[k].conn = "down"
    /\ screens' = [screens EXCEPT ![k] =
           [@ EXCEPT !.conn = "up", !.joinSent = TRUE]]
    /\ UNCHANGED <<preferredLanguage, conversations, members, messages, events,
                   sends, removals, directs, sockets, history>>

(***************************************************************************)
(* Two open chat screens of members of group 1 whose sockets lose and      *)
(* regain their connection.                                                *)
(***************************************************************************)
InitReconnect ==
    /\ preferredLanguage = [u \in Users |-> "en"]
    /\ conversations = << [type |-> "GROUP", createdBy |-> "u1", name |-> ""] >>
    /\ members = << Membership(1, "u1", "ADMIN"), Membership(1, "u2", "MEMBER"),
                    Membership(1, "u3", "MEMBER") >>
    /\ messages = <<>>
    /\ events = <<>>
    /\ sends = <<>>
    /\ removals = <<>>
    /\ directs = <<>>
    /\ sockets = << IdleSocket, IdleSocket >>
    /\ history = Null
    /\ screens = << OpenScreen("u2", "en", 1), OpenScreen("u3", "en", 1) >>

NextReconnect ==
    \/ \E k \in DOMAIN screens : JoinRequested(k)
    \/ \E k \in DOMAIN screens : JoinAnswer(k)
    \/ \E k \in DOMAIN screens : Disconnect(k)
    \/ \E k \in DOMAIN screens : Reconnect(k)
    \/ \E k \in DOMAIN screens : ServeMessages(k)
    \/ \E k \in DOMAIN screens : loadMessages(k)

\* The server runs the handler of every joinConversation that reaches it,
\* and an emitted joinConversation reaches it while the connection lasts.
SpecReconnect ==
    /\ InitReconnect
    /\ [][NextReconnect]_vars
    /\ \A k \in 1..2 : WF_vars(JoinRequested(k)) /\ WF_vars(JoinAnswer(k))

(***************************************************************************)
(* One open chat screen, of u1 on group 1, beside one send of u2 to group  *)
(* 1 or to group 2; the socket of the screen is in the room of group 2     *)
(* from a screen that was open before.                                     *)
(***************************************************************************)
ScreenConversations == {1, 2}

InitScreen ==
    /\ preferredLanguage = [u \in Users |-> "en"]
    /\ conversations = << [type |-> "GROUP", createdBy |-> "u1", name |-> ""],
                          [type |-> "GROUP", createdBy |-> "u1", name |-> ""] >>
    /\ members = << Membership(1, "u1", "ADMIN"), Membership(1, "u2", "MEMBER"),
                    Membership(2, "u1", "ADMIN"), Membership(2, "u2", "MEMBER") >>
    /\ messages = <<>>
    /\ events = <<>>
    /\ sends = << IdleSend >>
    /\ removals = <<>>
    /\ directs = <<>>
    /\ sockets = << [IdleSocket EXCEPT
                        !.conversationId = 2, !.userId = "u1", !.member = TRUE,
                        !.rooms = {2},
                        !.data = [userId |-> "u1", conversationId |-> 2],
                        !.ack = [ok |-> TRUE, error |-> ""]] >>
    /\ history = Null
    /\ screens = << OpenScreen("u1", "en", 1) >>

NextScreen ==
    \/ \E s \in DOMAIN sends, c \in ScreenConversations, u \in ChurnSenders,
          t \in SerialTexts : StartSendMessage(s, c, u, t)
    \/ \E s \in DOMAIN sends, c \in ScreenConversations, u \in ChurnSenders,
          a \in SerialAudios : StartSendVoiceMessage(s, c, u, a)
    \/ \E s \in DOMAIN sends : SendStep(s)
    \/ \E u \in LanguageChangers, l \in Langs : ChangeLanguage(u, l)
    \/ \E k \in DOMAIN screens : JoinRequested(k)
    \/ \E k \in DOMAIN screens : JoinAnswer(k)
    \/ \E k \in DOMAIN screens : ServeMessages(k)
    \/ \E k \in DOMAIN screens : loadMessages(k)
    \/ \E k \in DOMAIN screens : onReceive(k)

SpecScreen == InitScreen /\ [][NextScreen]_vars

(***************************************************************************)
(* One socket beside the removal of members of group 1: the socket joins   *)
(* for a user and one send arrives on it.                                  *)
(***************************************************************************)
\* The socket whose handler the send s is: each connection registers its
\* own handlers.
SendingSocket(s) == s

GatewaySenders == {"u2", "u3"}

InitGateway ==
    /\ preferredLanguage = [u \in Users |-> "en"]
    /\ conversations = << [type |-> "GROUP", createdBy |-> "u1", name |-> ""] >>
    /\ members = << Membership(1, "u1", "ADMIN"), Membership(1, "u2", "MEMBER"),
                    Membership(1, "u3", "MEMBER") >>
    /\ messages = <<>>
    /\ events = <<>>
    /\ sends = << IdleSend >>
    /\ removals = << IdleRemoval >>
    /\ directs = <<>>
    /\ sockets = << IdleSocket >>
    /\ history = Null
    /\ screens = <<>>

NextGateway ==
    \/ \E k \in DOMAIN sockets, u \in Joiners : JoinCheck(k, 1, u)
    \/ \E k \in DOMAIN sockets : JoinAnswer(k)
    \/ \E s \in DOMAIN sends, u \in GatewaySenders, t \in SerialTexts :
          StartSendMessage(s, 1, u, t)
    \/ \E s \in DOMAIN sends, u \in GatewaySenders, a \in SerialAudios :
          StartSendVoiceMessage(s, 1, u, a)
    \/ \E s \in DOMAIN sends : SendStep(s)
    \/ \E r \in DOMAIN removals, u \in Requesters, v \in Targets :
          RemoveAuthorize(r, 1, u, v)
    \/ \E r \in DOMAIN removals : RemoveFindTarget(r)
    \/ \E r \in DOMAIN removals : RemoveCountAdmins(r)
    \/ \E r \in DOMAIN removals : RemoveDelete(r)

SpecGateway == InitGateway /\ [][NextGateway]_vars

(***************************************************************************)
(* Properties of the delivery pipeline.                                    *)
(***************************************************************************)
RowsOf(s) == SelectSeq(messages, LAMBDA m : m.send = s)
EventsOf(s) == SelectSeq(events, LAMBDA e : e.send = s)

Done(s) == sends[s].pc = "done"
Failed(s) == Done(s) /\ ~sends[s].ack.ok
ListLoaded(s) == sends[s].pc \notin {"idle", "members"} /\ sends[s].list # <<>>
TargetLanguages(s) ==
    { sends[s].list[k].preferredLanguage : k \in 1..Len(sends[s].list) }

\* The voice send s ran over three members and text-to-speech failed for
\* the second of them.
TtsFailedForSecondOfThree(s) ==
    /\ Failed(s)
    /\ IsVoice(s)
    /\ Len(sends[s].list) = 3
    /\ sends[s].i = 2
    /\ sends[s].ack.error.message = "Sarvam TTS failed"

\* C1: when text-to-speech fails for the 2nd of 3 members of a voice send,
\* no Message row of that send exists (none for the 1st member either) and
\* the error returned names the stage "sarvam-tts" with a trace id.
C1_VoiceAllOrNothing ==
    \A s \in DOMAIN sends :
        TtsFailedForSecondOfThree(s) =>
            /\ Len(RowsOf(s)) = 0
            /\ sends[s].ack.error.stage = "sarvam-tts"
            /\ sends[s].ack.traceId # Null

\* C2: a text send that ends in failure has persisted no Message row and
\* emitted no receiveMessage event for any member.
C2_TextSendAtomic ==
    \A s \in DOMAIN sends :
        (Failed(s) /\ sends[s].entry = "sendMessage") =>
            /\ Len(RowsOf(s)) = 0
            /\ Len(EventsOf(s)) = 0

\* The send s has left nothing behind: no row, no event, no provider call.
NoEffect(s) ==
    /\ Len(RowsOf(s)) = 0
    /\ Len(EventsOf(s)) = 0
    /\ sends[s].asked = NoAsks

\* The payload of s fails the check its entry point makes before
\* assertMember: blank text on sendMessage, blank audio on the HTTP route.
RejectedAsInvalid(s) ==
    \/ sends[s].entry = "sendMessage" /\ Trim(sends[s].text.w) = ""
    \/ sends[s].entry = "httpVoice" /\ Trim(sends[s].audio.data) = ""

\* C3 as stated: a send by a user without a membership fails with the
\* not-a-member error, with no row, no event and no provider call.
C3_NonMemberGetsNotMember ==
    \A s \in DOMAIN sends :
        (sends[s].pc # "idle" /\ ~sends[s].wasMember) =>
            /\ Failed(s)
            /\ sends[s].ack.error = NotMember
            /\ NoEffect(s)

\* C3, amended: a send by a user without a membership fails with no row, no
\* event and no provider call; the error is the not-a-member error unless
\* the payload is blank on sendMessage or on the HTTP route, where the
\* validation error is returned instead.
C3_NonMemberRejected ==
    \A s \in DOMAIN sends :
        (sends[s].pc # "idle" /\ ~sends[s].wasMember) =>
            /\ Failed(s)
            /\ NoEffect(s)
            /\ IF RejectedAsInvalid(s)
               THEN sends[s].ack.error.message \in
                        {"text is required", "audioBase64 is required"}
               ELSE sends[s].ack.error = NotMember

C3_Witness ==
    \E s \in DOMAIN sends :
        /\ Done(s)
        /\ ~sends[s].wasMember
        /\ sends[s].entry = "httpVoice"
        /\ sends[s].ack.error = NotMember

\* C4: a successful text send over N members has persisted exactly N rows
\* of kind TEXT and emitted exactly N receiveMessage events to the room of
\* the conversation, the k-th for the k-th member: its targetLanguage is
\* that member's preferred language and the event carries the row's id.
C4_TextFanOut ==
    \A s \in DOMAIN sends :
        (Done(s) /\ sends[s].ack.ok /\ sends[s].entry = "sendMessage") =>
            LET n == Len(sends[s].list)
                rows == RowsOf(s)
                evs == EventsOf(s)
            IN  /\ n = Len(MemberRows(sends[s].conversationId))
                /\ Len(rows) = n
                /\ Len(evs) = n
                /\ \A k \in 1..n :
                      /\ sends[s].list[k].id =
                             MemberRows(sends[s].conversationId)[k].userId
                      /\ rows[k].kind = "TEXT"
                      /\ rows[k].targetLanguage = sends[s].list[k].preferredLanguage
                      /\ evs[k].name = "receiveMessage"
                      /\ evs[k].room = sends[s].conversationId
                      /\ evs[k].targetLanguage = sends[s].list[k].preferredLanguage
                      /\ evs[k].id = rows[k].id
                      /\ messages[rows[k].id] = rows[k]

C4_Witness ==
    \E s \in DOMAIN sends :
        /\ Done(s) /\ sends[s].ack.ok /\ sends[s].entry = "sendMessage"
        /\ Len(RowsOf(s)) = 3
        /\ Cardinality(TargetLanguages(s)) = 2

\* C5: a successful send over members with R distinct preferred languages
\* has created exactly R rows, no two of them with the same targetLanguage.
C5_OneRowPerLanguage ==
    \A s \in DOMAIN sends :
        (Done(s) /\ sends[s].ack.ok) =>
            LET rows == RowsOf(s)
            IN  /\ Len(rows) = Cardinality(TargetLanguages(s))
                /\ \A j, k \in 1..Len(rows) :
                      j # k => rows[j].targetLanguage # rows[k].targetLanguage

\* The text send s has read its members and all of them prefer language L.
AllPrefer(s, L) ==
    /\ sends[s].entry = "sendMessage"
    /\ ListLoaded(s)
    /\ TargetLanguages(s) = {L}

IdentityWithoutProvider(s) ==
    /\ sends[s].asked.translate = 0
    /\ \A k \in 1..Len(RowsOf(s)) :
          RowsOf(s)[k].translatedText = RowsOf(s)[k].originalText

\* C6 as stated: when the sender and all members prefer the same language,
\* every row has translatedText = originalText and the translation provider
\* is never called, whatever the text.
C6_SharedLanguageIdentity ==
    \A s \in DOMAIN sends :
        (\E L \in Langs : AllPrefer(s, L)) => IdentityWithoutProvider(s)

\* C6, amended: the same when, besides, the source language of the send
\* (the language detected from the text, the sender's preferred language
\* when none is detected) is that shared language.
C6_SharedSourceLanguageIdentity ==
    \A s \in DOMAIN sends :
        AllPrefer(s, sends[s].sourceLanguage) => IdentityWithoutProvider(s)

C6_Witness ==
    \E s \in DOMAIN sends :
        /\ AllPrefer(s, sends[s].sourceLanguage)
        /\ Done(s) /\ sends[s].ack.ok
        /\ Len(RowsOf(s)) = 3
        /\ sends[s].text.l = sends[s].sourceLanguage

(***************************************************************************)
(* Properties of the group handlers.                                       *)
(***************************************************************************)
MembershipsOf(conversationId) ==
    { members[k] : k \in { j \in 1..Len(members) :
                             members[j].conversationId = conversationId } }

AdminsOf(conversationId) ==
    { m \in MembershipsOf(conversationId) : m.role = "ADMIN" }

\* C7: in every reachable state, however the removal requests interleave,
\* every GROUP conversation has at least one membership of role ADMIN.
C7_GroupKeepsAnAdmin ==
    \A c \in 1..Len(conversations) :
        conversations[c].type = "GROUP" => AdminsOf(c) # {}

\* Two requests to remove the admin of the same group have both run.
C7_Witness ==
    \E r, q \in DOMAIN removals :
        /\ r # q
        /\ removals[r].pc = "done" /\ removals[q].pc = "done"
        /\ removals[r].conversationId = removals[q].conversationId
        /\ removals[r].targetRole = "ADMIN" /\ removals[q].targetRole = "ADMIN"

\* The request r ends in this step.
Ends(r) == removals[r].pc # "done" /\ removals'[r].pc = "done"

TargetOf(r) ==
    { m \in MembershipsOf(removals[r].conversationId) : m.userId = removals[r].userId }

DirectConversationsOf(a, b) ==
    { c \in 1..Len(conversations) :
        conversations[c].type = "DIRECT" /\ UsersOf(c) = {a, b} }

Answered(d) == directs[d].pc = "done" /\ directs[d].status \in {200, 201}

SamePair(d, e) ==
    {directs[d].userId, directs[d].contactUserId} =
        {directs[e].userId, directs[e].contactUserId}

\* C9: of two creation requests for the same pair of distinct users served
\* one after the other, in the same order or with requester and contact
\* exchanged, the second returns the id the first returned and creates
\* nothing: the pair has one DIRECT conversation, with its two memberships.
C9_DirectIdempotent ==
    \A d, e \in DOMAIN directs :
        (d < e /\ Answered(d) /\ Answered(e) /\ SamePair(d, e)) =>
            /\ directs[e].id = directs[d].id
            /\ directs[e].status = 200
            /\ DirectConversationsOf(directs[d].userId, directs[d].contactUserId) =
                   {directs[d].id}
            /\ Len(MemberRows(directs[d].id)) = 2

\* u4 asked for the conversation with u2 after u2 had created it with u4.
C9_Witness ==
    \E d, e \in DOMAIN directs :
        /\ d < e /\ Answered(d) /\ Answered(e)
        /\ directs[d].userId = "u2" /\ directs[d].contactUserId = "u4"
        /\ directs[e].userId = "u4" /\ directs[e].contactUserId = "u2"
        /\ directs[d].status = 201

\* C10: in every reachable state there is at most one DIRECT conversation
\* per unordered pair of users.
C10_OneDirectPerPair ==
    \A a, b \in Users :
        a # b => Cardinality(DirectConversationsOf(a, b)) <= 1

(***************************************************************************)
(* Properties of sends that follow one another.                            *)
(***************************************************************************)
\* The row the step has appended to the table Message, and its event.
RowWritten == Len(messages') = Len(messages) + 1
NewRow == messages'[Len(messages')]
NewEvent == events'[Len(events')]

\* The send s has finished with a row for the user in the language.
DeliveredIn(s, userId, language) ==
    /\ Done(s)
    /\ \E k \in 1..Len(RowsOf(s)) :
          /\ sends[s].list[RowsOf(s)[k].member].id = userId
          /\ RowsOf(s)[k].targetLanguage = language

\* C11: with sends served one after another and u2's language changed
\* only between them, every row a send writes, and the event emitted for
\* it, has the targetLanguage its member prefers at that moment: send 2
\* targets the language u2 chose after send 1, never the one send 1 read.
C11_NextSendTargetsNewLanguage ==
    [][RowWritten =>
          /\ NewRow.targetLanguage =
                 preferredLanguage[sends[NewRow.send].list[NewRow.member].id]
          /\ Len(events') = Len(events) + 1
          /\ NewEvent.id = NewRow.id
          /\ NewEvent.targetLanguage = NewRow.targetLanguage
      ]_vars

\* Send 1 delivered to u2 in en, u2 changed to hi, send 2 delivered in hi.
C11_Witness ==
    \E s, t \in DOMAIN sends :
        /\ s < t
        /\ DeliveredIn(s, "u2", "en")
        /\ DeliveredIn(t, "u2", "hi")
        /\ sends[s].ack.ok /\ sends[t].ack.ok

(***************************************************************************)
(* Properties of a send among concurrent changes.                          *)
(***************************************************************************)
\* C12: once a send has read its member list, the list stays as read
\* whatever is committed meanwhile; every row the send writes is for the
\* next entry of that list, with the targetLanguage read with the list; and
\* a send that succeeds has written one row per entry of it.
C12_SnapshotDecidesRows ==
    [][\A s \in DOMAIN sends :
          /\ sends[s].list # <<>> => sends'[s].list = sends[s].list
          /\ (RowWritten /\ NewRow.send = s) =>
                /\ NewRow.member = Len(RowsOf(s)) + 1
                /\ NewRow.member <= Len(sends[s].list)
                /\ NewRow.targetLanguage =
                       sends[s].list[NewRow.member].preferredLanguage
          /\ (~Done(s) /\ sends'[s].pc = "done" /\ sends'[s].ack.ok) =>
                Len(SelectSeq(messages', LAMBDA m : m.send = s)) =
                    Len(sends[s].list)
      ]_vars

\* The send is at its third member after u2 has changed language, u4 has
\* been added and u2 removed, all since it read its list.
C12_Witness ==
    \E s \in DOMAIN sends :
        /\ sends[s].pc = "persist"
        /\ sends[s].i = 3
        /\ Len(sends[s].list) = 3
        /\ Len(RowsOf(s)) = 2
        /\ sends[s].list[2].id = "u2"
        /\ sends[s].list[2].preferredLanguage = "en"
        /\ preferredLanguage["u2"] = "hi"
        /\ isConversationMember(1, "u4")
        /\ ~isConversationMember(1, "u2")

(***************************************************************************)
(* Properties of the order of rows and events.                             *)
(***************************************************************************)
\* C13: every event emitted carries the id of a Message row that is in the
\* table, written by the same send for the same member with the same
\* targetLanguage; and a send that failed has emitted events only for the
\* members before the one it failed at.
C13_EventAfterRow ==
    /\ \A k \in 1..Len(events) :
          /\ events[k].id \in 1..Len(messages)
          /\ messages[events[k].id].id = events[k].id
          /\ messages[events[k].id].send = events[k].send
          /\ messages[events[k].id].member = events[k].member
          /\ messages[events[k].id].targetLanguage = events[k].targetLanguage
          /\ events[k].name =
                 IF messages[events[k].id].kind = "VOICE"
                 THEN "receiveVoiceMessage" ELSE "receiveMessage"
    /\ \A s \in DOMAIN sends :
          Failed(s) =>
              \A k \in 1..Len(EventsOf(s)) : EventsOf(s)[k].member < sends[s].i

\* A voice send failed at the upload of the third member's audio after
\* the events of the first two members had gone out.
C13_Witness ==
    \E s \in DOMAIN sends :
        /\ Failed(s)
        /\ sends[s].i = 3
        /\ sends[s].ack.error.stage = "cloudinary-translated"
        /\ Len(EventsOf(s)) = 2

(***************************************************************************)
(* Properties of the answers of the send handlers.                         *)
(***************************************************************************)
\* C14: every answer to a voice send, on the HTTP route and on the socket,
\* whether it succeeded or failed and at whatever stage, carries the trace
\* id made for that invocation.
C14_VoiceAnswerCarriesTraceId ==
    \A s \in DOMAIN sends :
        (Done(s) /\ IsVoice(s)) =>
            /\ sends[s].ack.traceId # Null
            /\ sends[s].ack.traceId = makeTraceId(s)

\* The payload of the send s is empty or only white space.
BlankPayload(s) ==
    IF sends[s].entry = "sendMessage"
    THEN Trim(sends[s].text.w) = ""
    ELSE Trim(sends[s].audio.data) = ""

\* C15: a send with an empty or blank payload, on any of the three entry
\* points, is rejected: it never calls a provider (upload, speech-to-text,
\* translation, text-to-speech), writes no row, emits no event, and ends in
\* failure.
C15_BlankPayloadRejected ==
    \A s \in DOMAIN sends :
        (sends[s].pc # "idle" /\ BlankPayload(s)) =>
            /\ NoEffect(s)
            /\ Done(s) => Failed(s)

(***************************************************************************)
(* Properties of joinConversation.                                         *)
(***************************************************************************)
\* C16: the answer the join handler acts on is whether the supplied user
\* has a membership of the conversation when it asks; the rooms of a socket
\* change only by a join whose answer was yes, which adds the room of that
\* conversation and is acknowledged ok; a join whose answer was no is
\* acknowledged ok:false and leaves the rooms of the socket as they were.
C16_JoinOnlyMembers ==
    [][\A k \in DOMAIN sockets :
          /\ (sockets[k].pc = "idle" /\ sockets'[k].pc = "checked") =>
                sockets'[k].member =
                    (\E m \in MembershipsOf(sockets'[k].conversationId) :
                        m.userId = sockets'[k].userId)
          /\ sockets'[k].rooms # sockets[k].rooms =>
                /\ sockets[k].pc = "checked"
                /\ sockets[k].member
                /\ sockets'[k].rooms =
                       sockets[k].rooms \cup {sockets[k].conversationId}
                /\ sockets'[k].ack.ok
          /\ (sockets[k].pc = "checked" /\ ~sockets[k].member
                  /\ sockets'[k] # sockets[k]) =>
                /\ sockets'[k].ack.ok = FALSE
                /\ sockets'[k].rooms = sockets[k].rooms
      ]_vars

\* A socket joined the room of group 1 for u2, then asked to join for u4,
\* who is outside the group, and was refused: it is still in that one room.
C16_Witness ==
    \E k \in DOMAIN sockets :
        /\ sockets[k].pc = "idle"
        /\ sockets[k].userId = "u4"
        /\ sockets[k].ack # Null
        /\ ~sockets[k].ack.ok
        /\ sockets[k].rooms = {1}
        /\ sockets[k].data.userId = "u2"
        /\ ~isConversationMember(1, "u4")

(***************************************************************************)
(* Properties of the source language and of the errors.                    *)
(***************************************************************************)
\* The voice send s has its transcript and its source language.
SourceReady(s) == IsVoice(s) /\ sends[s].asked.stt = 1 /\ sends[s].sourceLanguage # ""

\* C17: the source language of a voice send is the language the
\* speech-to-text provider reports (its language_code) when it reports
\* one, and otherwise the language detected from the transcript, with the
\* sender's preferred language when none can be detected.
C17_VoiceSourceLanguage ==
    \A s \in DOMAIN sends :
        SourceReady(s) =>
            sends[s].sourceLanguage =
                IF fromBcp47Language(sends[s].audio.code) # ""
                THEN fromBcp47Language(sends[s].audio.code)
                ELSE detectLanguage(sends[s].audio.said,
                         FindSender(sends[s].list, sends[s].senderId).preferredLanguage)

\* The messages of the errors the providers and the store raise.
DependencyErrors ==
    {"upload failed", "Sarvam STT failed", "translation failed",
     "Sarvam TTS failed", "create failed"}

\* The send s failed because a provider or the store failed.
DependencyFailed(s) ==
    Failed(s) /\ sends[s].ack.error.message \in DependencyErrors

\* The stage at which the send s was when the dependency failed.
FailedStage(s) ==
    LET message == sends[s].ack.error.message
    IN  IF message = "upload failed"
        THEN IF sends[s].i = 0 THEN "cloudinary-original" ELSE "cloudinary-translated"
        ELSE IF message = "Sarvam STT failed" THEN "sarvam-stt"
        ELSE IF message = "translation failed" THEN "lingo-translate"
        ELSE IF message = "Sarvam TTS failed" THEN "sarvam-tts"
        ELSE "db-save"

\* C18: the error of a send, text or voice, that failed because a provider
\* or the store failed carries the tag of the stage that failed, the first
\* and only one to fail since the send stops there.
C18_ErrorCarriesStage ==
    \A s \in DOMAIN sends :
        DependencyFailed(s) => sends[s].ack.error.stage = FailedStage(s)

\* The create of the send s failed for its member k.
CreateFailedAt(s, k) ==
    /\ Failed(s)
    /\ sends[s].ack.error.message = "create failed"
    /\ sends[s].i = k

\* C19: when the create of the k-th member's row fails, the send answers
\* with a failure, the rows of the k-1 members before it are in the table
\* and their events have been emitted, and there is no row for the k-th
\* member or any after it.
C19_PartialRowsRemain ==
    \A s \in DOMAIN sends :
        \A k \in 1..Len(sends[s].list) :
            CreateFailedAt(s, k) =>
                /\ ~sends[s].ack.ok
                /\ Len(RowsOf(s)) = k - 1
                /\ Len(EventsOf(s)) = k - 1
                /\ \A j \in 1..(k - 1) :
                      /\ RowsOf(s)[j].member = j
                      /\ messages[RowsOf(s)[j].id] = RowsOf(s)[j]
                      /\ EventsOf(s)[j].id = RowsOf(s)[j].id

\* The create failed for the third member of a send after two rows.
C19_Witness ==
    \E s \in DOMAIN sends :
        /\ CreateFailedAt(s, 3)
        /\ Len(RowsOf(s)) = 2

(***************************************************************************)
(* Properties of the table Message.                                        *)
(***************************************************************************)
\* C20: no step of the server (a send, a change of membership, of a
\* profile or of a group, a read of the history) changes or deletes a
\* Message row that exists: the table only grows at its end.
C20_MessagesAppendOnly ==
    [][/\ Len(messages') >= Len(messages)
       /\ \A k \in 1..Len(messages) : messages'[k] = messages[k]
      ]_vars

\* Rows of u2 exist and the history read has returned them; the group was
\* renamed, u4 added, the sender u2 removed and u2's language changed.
C20_Witness ==
    /\ Len(messages) >= 2
    /\ history # Null
    /\ history.status = 200
    /\ history.messages = messages
    /\ conversations[1].name = "team"
    /\ isConversationMember(1, "u4")
    /\ ~isConversationMember(1, "u2")
    /\ preferredLanguage["u2"] = "hi"
    /\ \E k \in 1..Len(messages) : messages[k].senderId = "u2"

(***************************************************************************)
(* Properties of the memberships of direct conversations.                  *)
(***************************************************************************)
IsDirect(c) == c \in 1..Len(conversations) /\ conversations[c].type = "DIRECT"

\* C21: every DIRECT conversation has exactly two memberships, of two
\* different users, both of role MEMBER; and a request to remove a member
\* of a DIRECT conversation is answered 403, whoever asks.
C21_DirectHasTwoMembers ==
    /\ \A c \in 1..Len(conversations) :
          IsDirect(c) =>
              /\ Len(MemberRows(c)) = 2
              /\ MemberRows(c)[1].userId # MemberRows(c)[2].userId
              /\ MemberRows(c)[1].role = "MEMBER"
              /\ MemberRows(c)[2].role = "MEMBER"
    /\ \A r \in DOMAIN removals :
          (removals[r].pc # "idle" /\ IsDirect(removals[r].conversationId)) =>
              /\ removals[r].pc = "done"
              /\ removals[r].status = 403

\* u2 asked to remove u3 from their direct conversation and was refused,
\* while the admin of group 1 has added u3 to the group.
C21_Witness ==
    \E r \in DOMAIN removals :
        /\ IsDirect(removals[r].conversationId)
        /\ removals[r].requester = "u2"
        /\ removals[r].userId = "u3"
        /\ UsersOf(removals[r].conversationId) = {"u2", "u3"}
        /\ removals[r].error = "Admin permission required"
        /\ isConversationMember(1, "u3")

(***************************************************************************)
(* Properties of the order within one send.                                *)
(***************************************************************************)
\* The send s is in the body of its loop, at member sends[s].i.
InLoop(s) == sends[s].pc \in {"translate", "tts", "uploadTr", "persist"}

\* C22: the rows of one send, in the order in which they were created, are
\* for the members of its list in the order of the list, and so are its
\* events; while the send works for its member i exactly the rows and
\* events of the i-1 members before it exist, and no provider has been
\* called for a member after i; whatever another send does meanwhile.
C22_MemberOrder ==
    \A s \in DOMAIN sends :
        /\ Len(EventsOf(s)) = Len(RowsOf(s))
        /\ Len(RowsOf(s)) <= Len(sends[s].list)
        /\ \A j \in 1..Len(RowsOf(s)) :
              /\ RowsOf(s)[j].recipientId = sends[s].list[j].id
              /\ EventsOf(s)[j].recipientId = sends[s].list[j].id
              /\ EventsOf(s)[j].id = RowsOf(s)[j].id
              /\ j > 1 => RowsOf(s)[j].id > RowsOf(s)[j - 1].id
        /\ InLoop(s) =>
              /\ Len(RowsOf(s)) = sends[s].i - 1
              /\ sends[s].asked.translate <= sends[s].i
              /\ sends[s].asked.tts <= sends[s].i

\* Both sends have succeeded and their rows alternate in the table.
C22_Witness ==
    /\ \A s \in DOMAIN sends : Done(s) /\ sends[s].ack.ok
    /\ Len(messages) = 6
    /\ \A k \in 1..5 : messages[k].send # messages[k + 1].send

(***************************************************************************)
(* Properties of the end of a send.                                        *)
(***************************************************************************)
\* C23: every send that has started ends with an acknowledgment; the
\* acknowledgment is ok only when the row of every member of its list has
\* been written and its event emitted; and once it is given it stays as it
\* is, and the send writes no further row and emits no further event.
C23_SendEndsWithOneAck ==
    /\ \A s \in 1..Len(LiveSends) :
          (sends[s].pc # "idle") ~> (sends[s].pc = "done")
    /\ [](\A s \in 1..Len(LiveSends) :
            Done(s) =>
                /\ sends[s].ack # Null
                /\ sends[s].ack.ok =>
                       /\ Len(RowsOf(s)) = Len(sends[s].list)
                       /\ Len(EventsOf(s)) = Len(sends[s].list))
    /\ [][\A s \in 1..Len(LiveSends) :
            Done(s) =>
                /\ sends'[s] = sends[s]
                /\ SelectSeq(messages', LAMBDA m : m.send = s) = RowsOf(s)
                /\ SelectSeq(events', LAMBDA e : e.send = s) = EventsOf(s)]_vars

\* Of two sends that ran at the same time, a voice send was acknowledged
\* ok after its two rows and the other was acknowledged a failure after one.
C23_Witness ==
    \E s, t \in DOMAIN sends :
        /\ Done(s) /\ sends[s].ack.ok /\ IsVoice(s)
        /\ Len(RowsOf(s)) = 2
        /\ Failed(t) /\ Len(RowsOf(t)) = 1
        /\ \E j, k \in 1..Len(messages) :
              j < k /\ messages[j].send = t /\ messages[k].send = s
        /\ \E j, k \in 1..Len(messages) :
              j < k /\ messages[j].send = s /\ messages[k].send = t

(***************************************************************************)
(* Properties of the work a voice send does once.                          *)
(***************************************************************************)
\* The voice send s has begun the work for its members.
PerMemberWorkBegun(s) ==
    \/ InLoop(s)
    \/ sends[s].asked.translate > 0
    \/ sends[s].asked.tts > 0
    \/ sends[s].asked.upload > 0
    \/ Len(RowsOf(s)) > 0

\* C24: a voice send uploads the original audio at most once and calls
\* speech-to-text at most once; when it works for its members it has done
\* both, once each, the upload with success before the transcription; and
\* a send that failed at the upload of the original carries the tag
\* cloudinary-original, has called no other provider, written no row and
\* emitted no event.
C24_SharedWorkOnce ==
    \A s \in DOMAIN sends :
        IsVoice(s) =>
            /\ sends[s].asked.original <= 1
            /\ sends[s].asked.stt <= 1
            /\ sends[s].asked.stt = 1 =>
                   sends[s].asked.original = 1 /\ sends[s].originalAudioUrl # Null
            /\ PerMemberWorkBegun(s) =>
                   sends[s].asked.original = 1 /\ sends[s].asked.stt = 1
            /\ (Failed(s) /\ sends[s].ack.error.message = "upload failed"
                    /\ sends[s].i = 0) =>
                   /\ sends[s].ack.error.stage = "cloudinary-original"
                   /\ sends[s].asked = [NoAsks EXCEPT !.original = 1]
                   /\ Len(RowsOf(s)) = 0
                   /\ Len(EventsOf(s)) = 0

\* A voice send is at the row of its third member: one upload of the
\* original, one transcription, three translated uploads.
C24_Witness ==
    \E s \in DOMAIN sends :
        /\ IsVoice(s)
        /\ sends[s].pc = "persist"
        /\ sends[s].i = 3
        /\ sends[s].asked.original = 1
        /\ sends[s].asked.stt = 1
        /\ sends[s].asked.upload = 3


(***************************************************************************)
(* Properties of the chat screen and of the rooms of its socket.           *)
(***************************************************************************)
\* The socket of the screen k is in the room of the open conversation.
InRoom(k) == screens[k].conversationId \in sockets[k].rooms

\* C25: while a chat screen is open, after every reconnect of the socket
\* the client issues joinConversation again for the open conversation, so
\* the connected client of a member is in the room again in the end (or the
\* connection is lost again); the rooms of the connection before are never
\* taken over: a socket that is down is in no room, and every step that
\* brings the connection up emits the join.
C25_RejoinAfterReconnect ==
    /\ \A k \in 1..2 :
          (screens[k].conn = "up") ~> (InRoom(k) \/ screens[k].conn = "down")
    /\ [](\A k \in DOMAIN screens :
             screens[k].conn = "down" => sockets[k].rooms = {})
    /\ [][\A k \in DOMAIN screens :
             (screens[k].conn = "down" /\ screens'[k].conn = "up")
                => screens'[k].joinSent]_vars

\* Both sockets have lost the connection as often as the model lets them,
\* and each is connected and in the room of the open conversation again by
\* a join of its user that the server has answered on this connection.
C25_Witness ==
    \A k \in DOMAIN screens :
        /\ screens[k].drops = MaxDrops
        /\ screens[k].conn = "up"
        /\ InRoom(k)
        /\ sockets[k].data.userId = screens[k].userId
        /\ sockets[k].ack # Null /\ sockets[k].ack.ok

\* The events the socket has handed to the screen k.
Handed(k) ==
    { j \in 1..screens[k].seen : k \in events[j].to }

\* The event fails a test of the screen k: it is of another conversation,
\* or in another language than that of the session user.
FailsTest(k, msg) ==
    \/ msg.conversationId # screens[k].conversationId
    \/ msg.targetLanguage # screens[k].language

\* C26: the list of a chat screen only ever holds messages of the open
\* conversation in the preferred language of the (session) user; an event
\* that fails either test leaves the list unchanged, and so does a history
\* row that fails, which the list the load puts in place does not hold.
C26_ListOfOwnLanguage ==
    /\ [](\A k \in DOMAIN screens : \A i \in DOMAIN screens[k].list :
             ~FailsTest(k, screens[k].list[i]))
    /\ [][\A k \in DOMAIN screens :
             (/\ screens'[k].seen > screens[k].seen
              /\ FailsTest(k, events[screens'[k].seen]))
                => screens'[k].list = screens[k].list]_vars

\* The send went to the open conversation after u2 had changed to "hi":
\* the screen of u1 has been handed both events and has loaded the history
\* with both rows, and its list holds the one message in "en".
C26_Witness ==
    /\ screens[1].load.pc = "idle"
    /\ Len(messages) = 2
    /\ \A m \in DOMAIN messages : messages[m].conversationId = 1
    /\ Handed(1) = {1, 2}
    /\ \E j \in Handed(1) : events[j].targetLanguage = "hi"
    /\ Len(screens[1].list) = 1
    /\ screens[1].list[1].targetLanguage = "en"

\* The events of the send s that the handlers of the screen k have taken
\* into the list, and the rows of s that a loaded history shows.
AcceptedOf(k, s) ==
    { j \in Handed(k) : events[j].send = s /\ ~FailsTest(k, events[j]) }

ReadBackOf(k, s) ==
    { i \in DOMAIN screens[k].load.rows :
        /\ screens[k].load.rows[i].send = s
        /\ screens[k].load.rows[i].targetLanguage = screens[k].language }

\* C27: each send is shown once in the thread of a member: of one send the
\* screen accepts at most one event and reads back at most one row, and
\* exactly one event once all events of a successful send to the open
\* conversation were handed to it, also when members share its language.
C27_SendShownOnce ==
    \A k \in DOMAIN screens : \A s \in DOMAIN sends :
        /\ Cardinality(AcceptedOf(k, s)) <= 1
        /\ Cardinality(ReadBackOf(k, s)) <= 1
        /\ ( /\ Done(s) /\ sends[s].ack.ok
             /\ sends[s].conversationId = screens[k].conversationId
             /\ \A j \in DOMAIN events : events[j].send = s => j \in Handed(k) )
           => Cardinality(AcceptedOf(k, s)) = 1

\* The places of the list of the screen k that show the row id.
PlacesOf(k, id) ==
    { i \in DOMAIN screens[k].list : screens[k].list[i].id = id }

\* Nothing is on its way to the screen k: its load has been answered and
\* applied, every emitted event has reached it, and no send is running.
Settled(k) ==
    /\ screens[k].load.pc = "idle"
    /\ Undelivered(k) = {}
    /\ \A s \in DOMAIN sends : sends[s].pc \in {"idle", "done"}

\* C28: however a history load and the realtime event of a row addressed
\* to the client interleave, the list holds the id of the row exactly once
\* in the end: the load response neither overwrites the appended event nor
\* is the event appended to a response that already holds the row.
C28_LoadAndEventShowRowOnce ==
    \A k \in DOMAIN screens :
        Settled(k) =>
            \A j \in Handed(k) :
                ~FailsTest(k, events[j])
                    => Cardinality(PlacesOf(k, events[j].id)) = 1

(***************************************************************************)
(* Properties of the sockets of the gateway.                               *)
(***************************************************************************)
\* C29: the events of a conversation go only to sockets of users who are
\* members of it when the event is emitted: a socket that joined the room
\* for a user whose membership has been removed since gets no further
\* event of the conversation.
C29_EventsOnlyToMembers ==
    [][Len(events') = Len(events) + 1
          => \A k \in NewEvent.to :
                isConversationMember(NewEvent.room, sockets[k].data.userId)]_vars

\* C30: every row and event made through sendMessage or sendVoiceMessage
\* has the senderId of the user the sending socket joined as: a socket that
\* joined as another user, or that never joined, cannot have a message
\* attributed to a member persisted or emitted.
C30_SenderIsJoinedUser ==
    [][RowWritten
          => /\ NewRow.senderId = sockets[SendingSocket(NewRow.send)].data.userId
             /\ NewEvent.senderId = sockets[SendingSocket(NewEvent.send)].data.userId]_vars
=============================================================================
